---------------------------- MODULE Spec2Model ----------------------------
(***************************************************************************)
(* Air Canvas: the gesture interpreter (class AirCanvas, main.ts, kept in  *)
(* src/README.md in two variants) and the stroke store (class              *)
(* DrawingCanvas, src/src/drawingCanvas.ts and src/unnamed/part_000).      *)
(*                                                                         *)
(* Time is performance.now() in milliseconds.  Points are viewport pixels. *)
(* The object manager (objectManager.ts) and the gesture classifier        *)
(* (gestureDetector.ts) are not part of the sources: the classifier is the *)
(* input of every tracked frame, the object manager is the set `objects`   *)
(* plus the log of the calls made to it.                                   *)
(***************************************************************************)
EXTENDS Integers, Sequences, FiniteSets, TLC

(***************************************************************************)
(* Bounds of the model.                                                    *)
(***************************************************************************)
\* granularity of the clock: performance.now() advances in steps of TickMs
TickMs == 500
\* tracked frames and pointer input arrive during the first MaxTicks ticks
MaxTicks == 4
\* number of stroke objects startStroke may allocate in one run
MaxStrokes == 2
\* the same, in the runs of FairSpec
FairMaxStrokes == 1
\* number of points a stroke may hold
MaxPoints == 3
\* number of 3D objects the object manager may create in one run
MaxObjects == 1
\* number of entries of the colour palette (COLOR_ARRAY.length)
PaletteLen == 2
\* number of raw points fed to one stroke of the sampler
MaxRawPoints == 3
\* number of strokes started on the sampler
MaxSamplerStrokes == 2
\* number of 3D objects under the pointer
MaxPointerObjects == 2
\* number of fingers of a touch event
MaxTouches == 2

(***************************************************************************)
(* Program constants (constants.ts is not part of the sources; the two     *)
(* hold times are the documented ones, the others are chosen so that every *)
(* branch of the code that reads them is taken).                           *)
(***************************************************************************)
\* GESTURE.PALM_HOLD_TIME, ms
PALM_HOLD_TIME == 500
\* GESTURE.FIST_HOLD_TIME, ms
FIST_HOLD_TIME == 1000
\* the literal 200 of handleFist: progress is shown after 200 ms
FIST_PROGRESS_AFTER == 200
\* TIMING.STROKE_CLOSE_PULSE * 1000, ms
STROKE_CLOSE_PULSE_MS == 1000
\* STROKE.MIN_POINT_DISTANCE, px
MIN_POINT_DISTANCE == 4
\* GESTURE.MIN_STROKE_LENGTH, px
MIN_STROKE_LENGTH == 4

MaxTime == MaxTicks * TickMs

\* The two variants of main.ts kept in src/README.md.
Variants == {"colorIndex", "removeFirst"}

\* GestureKind; "null" stands for lastGestureState === null
GestureKinds == {"none", "draw", "pinch", "palm", "fist", "swipe"}
NoGesture == "null"

\* Fingertip / pinch-centre positions of the tracked frames: two points
\* MIN_POINT_DISTANCE apart (every distance between them, 0 or 4, is an
\* integer, so Math.sqrt is exact on them).
Points == {[x |-> 0, y |-> 0], [x |-> 0, y |-> 4]}
NoPoint == [x |-> -1, y |-> -1]

Colors == 0 .. (PaletteLen - 1)
\* COLOR_ARRAY[i]: a colour is named by its place in the palette
COLOR_ARRAY(i) == i
\* '#FFB3BA', the initial currentColor of the removeFirst variant
DefaultColor == 0

NoObject == 0
NoStroke == [id |-> 0, points |-> << >>, color |-> 0, closed |-> FALSE]

VARIABLES
    variant,            \* which main.ts is running
    now,                \* performance.now()
    \* ---- AirCanvas
    isDrawing, currentColorIndex, currentColor, lastGestureState,
    palmHoldStart, fistHoldStart, handDetected, grabbedObject,
    lastPinchPosition,
    \* ---- DrawingCanvas
    currentStroke, completedStrokes, nextStrokeId,
    \* ---- ObjectManager
    objects, nextObjectId,
    \* ---- pending callbacks and promises
    anims,              \* closing animations waiting for an animation frame
    pendingCreate,      \* strokes whose createFromStroke promise is pending
    pendingClear,       \* objectManager.clearAll() promises pending
    \* ---- observation
    calls,              \* the calls the last step made on its collaborators
    holdSpanStart,      \* time of the first frame of the running palm/fist run
    created,            \* the strokes createFromStroke has been called with
    \* ---- a DrawingCanvas fed directly (SamplerSpec)
    samplerVariant,     \* which DrawingCanvas: "raw" or "ema"
    sPoints,            \* currentStroke.points (<< >>: no current stroke)
    smoothedPosition,   \* the field smoothedPosition (NoPoint for null)
    sRaw,               \* the raw points fed to the current stroke
    sStrokes,           \* number of strokes started
    sampled,            \* every (raw stream, accepted points) seen so far
    sCompleted,         \* completedStrokes: the points of each closed stroke
    sDrawn,             \* what the last step drew: the render call and the
                        \* point arrays it handed to the spline
    \* ---- mouse and touch controls of the 3D scene (PointerSpec)
    isDragging, selectedObject, lastMouse,
    pressHit,           \* what the press that began the drag had hit
    pointerCalls,       \* the event handled last and the calls it made
    \* ---- HandTracker (TrackerSpec)
    trackerVariant,     \* which HandTracker: "raf" or "camera"
    callback, isRunning, animationId, camera, canvasWidth, canvasHeight,
    startPc,            \* where each call of start() stands
    loops,              \* the frame-processing loops that are alive
    delivered,          \* the Results the last step handed to onResults
    trackerCalls,       \* the invocations of the callback in the last step
    \* ---- AirCanvas.init and the render loop (SessionSpec)
    initPc,             \* where init() stands
    lastFrameTime,
    frameRequested,     \* animate is waiting for an animation frame
    renderCalls,        \* the calls the last run of animate made
    initCalls           \* the calls init() made after start() settled

appVars == <<isDrawing, currentColorIndex, currentColor, lastGestureState,
             palmHoldStart, fistHoldStart, handDetected, grabbedObject,
             lastPinchPosition>>
storeVars == <<currentStroke, completedStrokes, nextStrokeId>>
omVars == <<objects, nextObjectId>>
asyncVars == <<anims, pendingCreate, pendingClear>>
obsVars == <<calls, holdSpanStart, created>>
samplerVars == <<samplerVariant, sPoints, smoothedPosition, sRaw, sStrokes,
                 sampled, sCompleted, sDrawn>>
\* the state of the parts that are exercised on their own
pointerVars == <<isDragging, selectedObject, lastMouse, pressHit,
                 pointerCalls>>
trackerVars == <<trackerVariant, callback, isRunning, animationId, camera,
                 canvasWidth, canvasHeight, startPc, loops, delivered,
                 trackerCalls>>
sessionVars == <<initPc, lastFrameTime, frameRequested, renderCalls,
                 initCalls>>
auxVars == <<samplerVars, pointerVars, trackerVars, sessionVars>>
\* the state of the gesture interpreter and its collaborators
mainVars == <<variant, now, appVars, storeVars, omVars, asyncVars, obsVars>>
vars == <<mainVars, auxVars>>

(***************************************************************************)
(* DrawingCanvas                                                           *)
(***************************************************************************)
Min(a, b) == IF a <= b THEN a ELSE b

\* Math.sqrt on the squared distances that occur (perfect squares)
Sqrt(n) == CHOOSE r \in 0 .. n : r * r <= n /\ (r + 1) * (r + 1) > n

distance(p1, p2) ==
    LET dx == p1.x - p2.x
        dy == p1.y - p2.y
    IN  Sqrt(dx * dx + dy * dy)

RECURSIVE SumSegments(_, _)
SumSegments(pts, i) ==
    IF i > Len(pts) THEN 0
    ELSE distance(pts[i - 1], pts[i]) + SumSegments(pts, i + 1)

calculateStrokeLength(s) ==
    IF s = NoStroke \/ Len(s.points) < 2 THEN 0 ELSE SumSegments(s.points, 2)

\* startStroke(point, color): the new current stroke
startStroke(point, color) ==
    [id |-> nextStrokeId, points |-> <<point>>, color |-> color,
     closed |-> FALSE]

\* addPoint(point): the current stroke afterwards
addPoint(s, point) ==
    IF s = NoStroke THEN s
    ELSE LET lastPoint == s.points[Len(s.points)]
             dist == distance(point, lastPoint)
         IN  IF dist >= MIN_POINT_DISTANCE
             THEN [s EXCEPT !.points = Append(@, point)]
             ELSE s

\* faulty variant: the "points.length > 2" test is missing
closeStroke_anyCount(s) ==
    IF s = NoStroke THEN NoStroke
    ELSE IF calculateStrokeLength(s) < MIN_STROKE_LENGTH THEN NoStroke
    ELSE [s EXCEPT !.closed = TRUE]

\* faulty variant: "this.currentStroke.closed = true" is missing
closeStroke_notMarked(s) ==
    IF s = NoStroke THEN NoStroke
    ELSE IF calculateStrokeLength(s) < MIN_STROKE_LENGTH THEN NoStroke
    ELSE IF Len(s.points) > 2 THEN s
    ELSE NoStroke

\* closeStroke(): the value returned (NoStroke for null)
closeStroke(s) ==
    IF s = NoStroke THEN NoStroke
    ELSE IF calculateStrokeLength(s) < MIN_STROKE_LENGTH THEN NoStroke
    ELSE IF Len(s.points) > 2 THEN [s EXCEPT !.closed = TRUE]
    ELSE NoStroke

\* faulty variant: the completed array is assigned, not pushed to
closeStrokeCompleted_assigned(s, completed) ==
    IF closeStroke(s) # NoStroke THEN <<closeStroke(s)>>
    ELSE completed

\* closeStroke(): completedStrokes afterwards
closeStrokeCompleted(s, completed) ==
    IF closeStroke(s) # NoStroke THEN Append(completed, closeStroke(s))
    ELSE completed

\* removeCompletedStroke(stroke): completedStrokes afterwards
IndexOf(seq, e) ==
    IF \E i \in 1 .. Len(seq) : seq[i] = e
    THEN CHOOSE i \in 1 .. Len(seq) :
            seq[i] = e /\ \A j \in 1 .. (i - 1) : seq[j] # e
    ELSE 0

\* faulty variant: splice(0, 1), whatever indexOf found
removeCompletedStroke_first(completed, stroke) ==
    IF Len(completed) > 0 THEN SubSeq(completed, 2, Len(completed))
    ELSE completed

removeCompletedStroke(completed, stroke) ==
    LET index == IndexOf(completed, stroke)
    IN  IF index > 0
        THEN SubSeq(completed, 1, index - 1)
                 \o SubSeq(completed, index + 1, Len(completed))
        ELSE completed

\* clearAll(): currentStroke and completedStrokes afterwards
storeClearAll == [currentStroke |-> NoStroke, completedStrokes |-> << >>]

(***************************************************************************)
(* The trace of one step: the callback entered (onHandResults with the     *)
(* gesture the classifier reported, "null" for null landmarks) and the     *)
(* calls made on the collaborators (object manager, stroke store, DOM).    *)
(***************************************************************************)
Call(op, obj, stroke, num, pos, msg) ==
    [op |-> op, obj |-> obj, stroke |-> stroke, num |-> num, pos |-> pos,
     msg |-> msg]

ObjCall(op, o) == Call(op, o, 0, 0, NoPoint, "")
StrokeCall(op, sid, num) == Call(op, NoObject, sid, num, NoPoint, "")
PlainCall(op) == Call(op, NoObject, 0, 0, NoPoint, "")
\* showStatus(message, duration); duration 0 stands for "no duration"
showStatus(msg, duration) == Call("showStatus", NoObject, 0, duration, NoPoint, msg)
hideStatus == PlainCall("hideStatus")
\* objectManager.getObjectAtPosition(x, y) and the object it returned
hitTest(result) == ObjCall("getObjectAtPosition", result)

(***************************************************************************)
(* AirCanvas: one tracked frame = onHandResults -> handleGesture -> one    *)
(* handler -> the timer reset -> lastGestureState = gestureState           *)
(***************************************************************************)
\* onHandResults, before the gesture is dispatched
onHandResultsCalls(detected, g) ==
    <<Call("onHandResults", NoObject, 0, 0, NoPoint, g)>>
    \o (IF ~detected /\ handDetected
           THEN <<showStatus("Show your hand to begin", 0)>>
           ELSE IF detected /\ ~handDetected THEN <<hideStatus>> ELSE << >>)
    \o (IF variant = "removeFirst"
           THEN <<PlainCall("renderPreviewOverlay")>> ELSE << >>)

\* faulty variant: lastGestureState is assigned before handleGesture runs, so
\* the frame's gesture is compared with itself
gestureChanged_stale(g) == lastGestureState # NoGesture /\ g # g

\* handleGesture: "Reset timers if gesture changed"
gestureChanged(g) == lastGestureState # NoGesture /\ g # lastGestureState

\* faulty variant: the reset after the handler is forgotten
resetIfChanged_forgotten(g, timer) == timer

resetIfChanged(g, timer) == IF gestureChanged(g) THEN 0 ELSE timer

\* the two assignments of the reset, each with the value it overwrites
resetCalls(g, palmTimer, fistTimer) ==
    IF gestureChanged(g)
    THEN <<Call("palmHoldStart = 0", NoObject, 0, palmTimer, NoPoint, ""),
           Call("fistHoldStart = 0", NoObject, 0, fistTimer, NoPoint, "")>>
    ELSE << >>

\* the colour handleDraw passes to startStroke
activeColor ==
    IF variant = "colorIndex" THEN COLOR_ARRAY(currentColorIndex)
    ELSE currentColor

\* "if (this.grabbedObject) { releaseObject; grabbedObject = null; ... }"
releaseCalls ==
    IF grabbedObject # NoObject
    THEN <<ObjCall("releaseObject", grabbedObject)>> ELSE << >>

\* the run of consecutive tracked frames with gesture g goes on
sameRun(g) == handDetected /\ lastGestureState = g

spanStart(g) ==
    IF sameRun(g) /\ holdSpanStart # 0 THEN holdSpanStart ELSE now

\* what every tracked frame with landmarks does around its handler
TrackedFrame(g) ==
    /\ now <= MaxTime
    /\ handDetected' = TRUE
    /\ lastGestureState' = g
    /\ UNCHANGED <<variant, now, currentColorIndex, currentColor, auxVars>>

\* faulty variant: the stroke in progress is discarded when the hand is lost
FrameNull_discards ==
    /\ now <= MaxTime
    /\ handDetected' = FALSE
    /\ isDrawing' = FALSE
    /\ currentStroke' = NoStroke
    /\ calls' = onHandResultsCalls(FALSE, NoGesture)
    /\ holdSpanStart' = 0
    /\ UNCHANGED created
    /\ UNCHANGED <<variant, now, currentColorIndex, currentColor,
                   lastGestureState, palmHoldStart, fistHoldStart,
                   grabbedObject, lastPinchPosition, completedStrokes,
                   nextStrokeId, omVars, asyncVars, auxVars>>

\* ---- null landmarks
FrameNull ==
    /\ now <= MaxTime
    /\ handDetected' = FALSE
    /\ isDrawing' = FALSE
    /\ calls' = onHandResultsCalls(FALSE, NoGesture)
    /\ holdSpanStart' = 0
    /\ UNCHANGED created
    /\ UNCHANGED <<variant, now, currentColorIndex, currentColor,
                   lastGestureState, palmHoldStart, fistHoldStart,
                   grabbedObject, lastPinchPosition, storeVars, omVars,
                   asyncVars, auxVars>>

\* faulty variant: the "return" after pokeObject is missing
handleDraw_noReturn(position, hitObject) ==
    /\ hitObject \in objects \cup {NoObject}
    /\ IF ~isDrawing
       THEN /\ nextStrokeId <= MaxStrokes
            /\ isDrawing' = TRUE
            /\ currentStroke' = startStroke(position, activeColor)
            /\ nextStrokeId' = nextStrokeId + 1
            /\ UNCHANGED completedStrokes
       ELSE /\ Len(addPoint(currentStroke, position).points) <= MaxPoints
            /\ currentStroke' = addPoint(currentStroke, position)
            /\ UNCHANGED <<isDrawing, completedStrokes, nextStrokeId>>

\* ---- handleDraw(indexTip)
handleDraw(position, hitObject) ==
    /\ hitObject \in objects \cup {NoObject}
    /\ IF hitObject # NoObject
       THEN UNCHANGED <<isDrawing, storeVars>>
       ELSE IF ~isDrawing
       THEN /\ nextStrokeId <= MaxStrokes
            /\ isDrawing' = TRUE
            /\ currentStroke' = startStroke(position, activeColor)
            /\ nextStrokeId' = nextStrokeId + 1
            /\ UNCHANGED completedStrokes
       ELSE /\ Len(addPoint(currentStroke, position).points) <= MaxPoints
            /\ currentStroke' = addPoint(currentStroke, position)
            /\ UNCHANGED <<isDrawing, completedStrokes, nextStrokeId>>

handleDrawCalls(position, hitObject) ==
    <<hitTest(hitObject)>> \o
    (IF hitObject # NoObject THEN <<ObjCall("pokeObject", hitObject)>>
     ELSE IF ~isDrawing
     THEN <<Call("startStroke", NoObject, nextStrokeId, activeColor,
                 position, "")>>
     ELSE <<Call("addPoint", NoObject, currentStroke.id, 0, position, "")>>)

FrameDraw(position, hitObject) ==
    /\ TrackedFrame("draw")
    /\ handleDraw(position, hitObject)
    /\ palmHoldStart' = resetIfChanged("draw", palmHoldStart)
    /\ fistHoldStart' = resetIfChanged("draw", fistHoldStart)
    /\ calls' = onHandResultsCalls(TRUE, "draw")
                   \o handleDrawCalls(position, hitObject)
                   \o resetCalls("draw", palmHoldStart, fistHoldStart)
    /\ holdSpanStart' = 0
    /\ UNCHANGED created
    /\ UNCHANGED <<grabbedObject, lastPinchPosition, omVars, asyncVars>>

\* ---- handlePinch(landmarks)
handlePinch(pinchCenter, hitObject) ==
    /\ isDrawing' = FALSE
    /\ IF grabbedObject = NoObject
       THEN /\ hitObject \in objects \cup {NoObject}
            /\ IF hitObject # NoObject
               THEN /\ grabbedObject' = hitObject
                    /\ lastPinchPosition' =
                          IF variant = "removeFirst" THEN pinchCenter
                          ELSE lastPinchPosition
               ELSE UNCHANGED <<grabbedObject, lastPinchPosition>>
       ELSE /\ hitObject = NoObject
            /\ UNCHANGED grabbedObject
            /\ lastPinchPosition' =
                  IF variant = "removeFirst" THEN pinchCenter
                  ELSE lastPinchPosition

\* faulty variant: the "if (!this.grabbedObject)" test is missing, the hit
\* test and the grab are made on every pinch frame
handlePinchCalls_noTest(pinchCenter, hitObject) ==
    (IF isDrawing THEN <<PlainCall("pauseStroke")>> ELSE << >>) \o
    <<hitTest(hitObject)>> \o
    (IF hitObject # NoObject THEN <<ObjCall("grabObject", hitObject)>>
     ELSE << >>)

handlePinchCalls(pinchCenter, hitObject) ==
    (IF isDrawing THEN <<PlainCall("pauseStroke")>> ELSE << >>) \o
    (IF grabbedObject = NoObject
     THEN <<hitTest(hitObject)>> \o
          (IF hitObject # NoObject THEN <<ObjCall("grabObject", hitObject)>>
           ELSE << >>)
     ELSE IF variant = "removeFirst"
     THEN (IF lastPinchPosition # NoPoint
           THEN <<Call("moveGrabbedObject", grabbedObject, 0, 0, pinchCenter,
                       ""),
                  \* rotateObject(o, deltaX * 0.02, deltaY * 0.02): pos is
                  \* (deltaX, deltaY)
                  Call("rotateObject", grabbedObject, 0, 0,
                       [x |-> pinchCenter.x - lastPinchPosition.x,
                        y |-> pinchCenter.y - lastPinchPosition.y], "")>>
           ELSE << >>)
     ELSE <<Call("moveGrabbedObject", grabbedObject, 0, 0, pinchCenter, "")>>)

FramePinch(pinchCenter, hitObject) ==
    /\ TrackedFrame("pinch")
    /\ handlePinch(pinchCenter, hitObject)
    /\ palmHoldStart' = resetIfChanged("pinch", palmHoldStart)
    /\ fistHoldStart' = resetIfChanged("pinch", fistHoldStart)
    /\ calls' = onHandResultsCalls(TRUE, "pinch")
                   \o handlePinchCalls(pinchCenter, hitObject)
                   \o resetCalls("pinch", palmHoldStart, fistHoldStart)
    /\ holdSpanStart' = 0
    /\ UNCHANGED created
    /\ UNCHANGED <<storeVars, omVars, asyncVars>>

\* ---- closeAndInflate(): called by handlePalm once the hold has elapsed
closeAndInflateCalls ==
    LET stroke == closeStroke(currentStroke)
    IN  <<PlainCall("closeAndInflate"),
          \* closeStroke(): the stroke it returned (0 for null) and the
          \* number of points of the current stroke it was called on
          StrokeCall("closeStroke", stroke.id, Len(currentStroke.points))>> \o
        (IF stroke = NoStroke
            THEN <<showStatus("Draw a larger shape", 1000)>>
            ELSE <<StrokeCall("renderClosingAnimation", stroke.id, 0)>>)

\* faulty variant: the "if (!stroke) return" is missing
closeAndInflateAnims_noReturn ==
    anims \cup {[stroke |-> closeStroke(currentStroke), startTime |-> now,
                 progress |-> 0]}

\* the first synchronous animate() call renders progress 0 and asks for a frame
closeAndInflateAnims ==
    LET stroke == closeStroke(currentStroke)
    IN  IF stroke = NoStroke THEN anims
        ELSE anims \cup {[stroke |-> stroke, startTime |-> now, progress |-> 0]}

\* ---- handlePalm()
palmStart == IF palmHoldStart = 0 THEN now ELSE palmHoldStart

palmHoldElapsed == now - palmStart >= PALM_HOLD_TIME

\* faulty variant: the grabbed object is released only once the hold elapsed
handlePalm_lateRelease ==
    /\ grabbedObject' = IF palmHoldElapsed THEN NoObject ELSE grabbedObject
    /\ lastPinchPosition' =
          IF grabbedObject # NoObject /\ palmHoldElapsed THEN NoPoint
          ELSE lastPinchPosition
    /\ IF palmHoldElapsed
       THEN /\ currentStroke' = NoStroke
            /\ completedStrokes' =
                  closeStrokeCompleted(currentStroke, completedStrokes)
            /\ isDrawing' =
                  IF closeStroke(currentStroke) = NoStroke THEN isDrawing
                  ELSE FALSE
            /\ anims' = closeAndInflateAnims
       ELSE UNCHANGED <<currentStroke, completedStrokes, isDrawing, anims>>

handlePalm ==
    /\ grabbedObject' = NoObject
    /\ lastPinchPosition' =
          IF grabbedObject # NoObject THEN NoPoint ELSE lastPinchPosition
    /\ IF palmHoldElapsed
       THEN /\ currentStroke' = NoStroke
            /\ completedStrokes' =
                  closeStrokeCompleted(currentStroke, completedStrokes)
            /\ isDrawing' =
                  IF closeStroke(currentStroke) = NoStroke THEN isDrawing
                  ELSE FALSE
            /\ anims' = closeAndInflateAnims
       ELSE UNCHANGED <<currentStroke, completedStrokes, isDrawing, anims>>

handlePalmCalls ==
    releaseCalls \o (IF palmHoldElapsed THEN closeAndInflateCalls ELSE << >>)

FramePalm ==
    /\ TrackedFrame("palm")
    /\ handlePalm
    /\ palmHoldStart' =
          resetIfChanged("palm", IF palmHoldElapsed THEN 0 ELSE palmStart)
    /\ fistHoldStart' = resetIfChanged("palm", fistHoldStart)
    /\ calls' = onHandResultsCalls(TRUE, "palm") \o handlePalmCalls
                   \o resetCalls("palm",
                                 IF palmHoldElapsed THEN 0 ELSE palmStart,
                                 fistHoldStart)
    /\ holdSpanStart' = IF palmHoldElapsed THEN 0 ELSE spanStart("palm")
    /\ UNCHANGED created
    /\ UNCHANGED <<nextStrokeId, omVars, pendingCreate, pendingClear>>

\* ---- clearAll() of AirCanvas, up to its await
clearAllCalls ==
    <<PlainCall("clearAll"), showStatus("Clearing all...", 0),
      PlainCall("drawingCanvas.clearAll"), PlainCall("objectManager.clearAll")>>

\* ---- handleFist()
fistStart == IF fistHoldStart = 0 THEN now ELSE fistHoldStart

fistHoldElapsed == now - fistStart >= FIST_HOLD_TIME

handleFist ==
    IF fistHoldElapsed
    THEN /\ currentStroke' = storeClearAll.currentStroke
         /\ completedStrokes' = storeClearAll.completedStrokes
         /\ objects' = {}
         /\ pendingClear' = pendingClear + 1
    ELSE UNCHANGED <<currentStroke, completedStrokes, objects, pendingClear>>

handleFistCalls ==
    IF fistHoldElapsed THEN clearAllCalls
    ELSE IF now - fistStart > FIST_PROGRESS_AFTER
    THEN <<showStatus("Clearing... %", 0)>>
    ELSE << >>

FrameFist ==
    /\ TrackedFrame("fist")
    /\ handleFist
    /\ fistHoldStart' =
          resetIfChanged("fist", IF fistHoldElapsed THEN 0 ELSE fistStart)
    /\ palmHoldStart' = resetIfChanged("fist", palmHoldStart)
    /\ calls' = onHandResultsCalls(TRUE, "fist") \o handleFistCalls
                   \o resetCalls("fist", palmHoldStart,
                                 IF fistHoldElapsed THEN 0 ELSE fistStart)
    /\ holdSpanStart' = IF fistHoldElapsed THEN 0 ELSE spanStart("fist")
    /\ UNCHANGED created
    /\ UNCHANGED <<isDrawing, grabbedObject, lastPinchPosition, nextStrokeId,
                   nextObjectId, anims, pendingCreate>>

\* ---- handleSwipe(indexTip)
handleSwipe(hitObject) ==
    /\ hitObject \in objects \cup {NoObject}
    /\ objects' = IF hitObject # NoObject THEN objects \ {hitObject}
                  ELSE objects

\* faulty variant: the "if (hitObject)" test is missing
handleSwipeCalls_noTest(hitObject) ==
    <<hitTest(hitObject), ObjCall("removeObject", hitObject)>>

handleSwipeCalls(hitObject) ==
    <<hitTest(hitObject)>> \o
    (IF hitObject # NoObject
     THEN <<ObjCall("removeObject", hitObject)>> \o
          (IF variant = "colorIndex"
              THEN <<PlainCall("updateObjectCounter")>> ELSE << >>)
     ELSE << >>)

FrameSwipe(hitObject) ==
    /\ TrackedFrame("swipe")
    /\ handleSwipe(hitObject)
    /\ palmHoldStart' = resetIfChanged("swipe", palmHoldStart)
    /\ fistHoldStart' = resetIfChanged("swipe", fistHoldStart)
    /\ calls' = onHandResultsCalls(TRUE, "swipe")
                   \o handleSwipeCalls(hitObject)
                   \o resetCalls("swipe", palmHoldStart, fistHoldStart)
    /\ holdSpanStart' = 0
    /\ UNCHANGED created
    /\ UNCHANGED <<isDrawing, grabbedObject, lastPinchPosition, storeVars,
                   nextObjectId, asyncVars>>

\* ---- handleGesture, default case ('none')
\* faulty variant: "this.lastPinchPosition = null" is missing
handleDefault_keepsPosition ==
    /\ grabbedObject' = NoObject
    /\ UNCHANGED lastPinchPosition

handleDefault ==
    /\ grabbedObject' = NoObject
    /\ lastPinchPosition' =
          IF grabbedObject # NoObject THEN NoPoint ELSE lastPinchPosition

FrameNone ==
    /\ TrackedFrame("none")
    /\ handleDefault
    /\ palmHoldStart' = resetIfChanged("none", palmHoldStart)
    /\ fistHoldStart' = resetIfChanged("none", fistHoldStart)
    /\ calls' = onHandResultsCalls(TRUE, "none") \o releaseCalls
                   \o resetCalls("none", palmHoldStart, fistHoldStart)
    /\ holdSpanStart' = 0
    /\ UNCHANGED created
    /\ UNCHANGED <<isDrawing, storeVars, omVars, asyncVars>>

(***************************************************************************)
(* The closing animation and the solidification                            *)
(***************************************************************************)
\* progress = Math.min(elapsed / (TIMING.STROKE_CLOSE_PULSE * 1000), 1), kept
\* as its numerator over STROKE_CLOSE_PULSE_MS: progress is 1 exactly when
\* animationProgress = STROKE_CLOSE_PULSE_MS
\* faulty variant: Math.min(..., 1) is missing
animationProgress_unclamped(startTime) == now - startTime

animationProgress(startTime) == Min(now - startTime, STROKE_CLOSE_PULSE_MS)

CreateOutcomes == {"pending", "throws"}

\* the last step of `animate` (progress 1) and createBalloon(stroke) up to its
\* await; createFromStroke either returns a pending promise or fails at once
createBalloon(stroke, startTime, outcome) ==
    /\ outcome \in CreateOutcomes
    /\ completedStrokes' =
          IF variant = "removeFirst"
          THEN removeCompletedStroke(completedStrokes, stroke)
          ELSE completedStrokes
    /\ pendingCreate' =
          IF outcome = "pending" THEN pendingCreate \cup {stroke}
          ELSE pendingCreate
    /\ created' = created \cup {stroke.id}
    /\ calls' =
          <<StrokeCall("renderClosingAnimation", stroke.id,
                       animationProgress(startTime)),
            StrokeCall("createBalloon", stroke.id, 0)>>
          \o (IF variant = "removeFirst"
                 THEN <<StrokeCall("removeCompletedStroke", stroke.id, 0),
                        PlainCall("clear")>>
                 ELSE << >>)
          \o <<StrokeCall("createFromStroke", stroke.id, 0)>>
          \o (IF outcome = "throws"
                 THEN <<StrokeCall("createFromStroke.rejected", stroke.id, 0),
                        showStatus("Failed to create shape", 2000)>>
                 ELSE << >>)

\* one requestAnimationFrame callback of the closure `animate`
AnimationFrame(a, outcome) ==
    /\ a \in anims
    /\ IF animationProgress(a.startTime) < STROKE_CLOSE_PULSE_MS
       THEN /\ outcome = "pending"
            /\ anims' = (anims \ {a}) \cup
                  {[a EXCEPT !.progress = animationProgress(a.startTime)]}
            /\ calls' = <<StrokeCall("renderClosingAnimation", a.stroke.id,
                                     animationProgress(a.startTime))>>
            /\ UNCHANGED <<completedStrokes, pendingCreate, created>>
       ELSE /\ anims' = anims \ {a}
            /\ createBalloon(a.stroke, a.startTime, outcome)
    /\ UNCHANGED <<variant, now, appVars, currentStroke, nextStrokeId, omVars,
                   pendingClear, holdSpanStart, auxVars>>

\* the createFromStroke promise settles: the rest of createBalloon
CreateSettles(stroke, ok) ==
    /\ stroke \in pendingCreate
    /\ pendingCreate' = pendingCreate \ {stroke}
    /\ IF ok
       THEN /\ nextObjectId <= MaxObjects
            /\ objects' = objects \cup {nextObjectId}
            /\ nextObjectId' = nextObjectId + 1
            /\ IF variant = "colorIndex"
               THEN /\ completedStrokes' =
                          removeCompletedStroke(completedStrokes, stroke)
                    /\ currentColorIndex' =
                          (currentColorIndex + 1) % PaletteLen
                    /\ calls' =
                          <<StrokeCall("removeCompletedStroke", stroke.id, 0),
                            PlainCall("clear"),
                            PlainCall("updateColorIndicator"),
                            PlainCall("updateObjectCounter")>>
               ELSE /\ calls' = << >>
                    /\ UNCHANGED <<completedStrokes, currentColorIndex>>
       ELSE /\ calls' = <<StrokeCall("createFromStroke.rejected", stroke.id, 0),
                         showStatus("Failed to create shape", 2000)>>
            /\ UNCHANGED <<completedStrokes, currentColorIndex, omVars>>
    /\ UNCHANGED <<variant, now, isDrawing, currentColor, lastGestureState,
                   palmHoldStart, fistHoldStart, handDetected, grabbedObject,
                   lastPinchPosition, currentStroke, nextStrokeId, anims,
                   pendingClear, holdSpanStart, created, auxVars>>

\* the objectManager.clearAll() promise resolves: the rest of clearAll()
ClearAllResolves ==
    /\ pendingClear > 0
    /\ pendingClear' = pendingClear - 1
    /\ calls' = <<hideStatus>> \o
          (IF variant = "colorIndex"
              THEN <<PlainCall("updateObjectCounter")>> ELSE << >>)
    /\ UNCHANGED <<variant, now, appVars, storeVars, omVars, anims,
                   pendingCreate, holdSpanStart, created, auxVars>>

\* a click on a colour swatch (removeFirst variant)
SelectColor(color) ==
    /\ variant = "removeFirst"
    /\ now <= MaxTime
    /\ color \in Colors
    /\ color # currentColor
    /\ currentColor' = color
    /\ calls' = << >>
    /\ UNCHANGED <<variant, now, isDrawing, currentColorIndex,
                   lastGestureState, palmHoldStart, fistHoldStart,
                   handDetected, grabbedObject, lastPinchPosition, storeVars,
                   omVars, asyncVars, holdSpanStart, created, auxVars>>

\* time passes
Tick ==
    /\ now < MaxTime + STROKE_CLOSE_PULSE_MS
    /\ now' = now + TickMs
    /\ calls' = << >>
    /\ UNCHANGED <<variant, appVars, storeVars, omVars, asyncVars,
                   holdSpanStart, created, auxVars>>

InitMain ==
    /\ variant \in Variants
    /\ now = TickMs
    /\ isDrawing = FALSE
    /\ currentColorIndex = 0
    /\ currentColor = DefaultColor
    /\ lastGestureState = NoGesture
    /\ palmHoldStart = 0
    /\ fistHoldStart = 0
    /\ handDetected = FALSE
    /\ grabbedObject = NoObject
    /\ lastPinchPosition = NoPoint
    /\ currentStroke = NoStroke
    /\ completedStrokes = << >>
    /\ nextStrokeId = 1
    /\ objects = {}
    /\ nextObjectId = 1
    /\ anims = {}
    /\ pendingCreate = {}
    /\ pendingClear = 0
    /\ calls = << >>
    /\ holdSpanStart = 0
    /\ created = {}

\* a step that renders nothing
NoDraw == [op |-> "", paths |-> << >>]

\* a DrawingCanvas after construction
InitSampler ==
    /\ sPoints = << >>
    /\ smoothedPosition = NoPoint
    /\ sRaw = << >>
    /\ sStrokes = 0
    /\ sampled = {}
    /\ sCompleted = << >>
    /\ sDrawn = NoDraw

\* the pointer fields of AirCanvas after construction
InitPointer ==
    /\ isDragging = FALSE
    /\ selectedObject = NoObject
    /\ lastMouse = [x |-> 0, y |-> 0]
    /\ pressHit = NoObject
    /\ pointerCalls = << >>

\* number of calls of HandTracker.start in one run
MaxStarts == 2
StartIds == 1 .. MaxStarts
\* callback === null, animationId === null, camera === null
NoCallback == 0
NoHandle == 0
NoCamera == 0
\* no Results were handed to onResults
NoDelivery == [given |-> FALSE, results |-> << >>]
\* the landmarks argument null
NoLandmarks == << >>

\* a HandTracker after construction
InitTracker ==
    /\ callback = NoCallback
    /\ isRunning = FALSE
    /\ animationId = NoHandle
    /\ camera = NoCamera
    /\ canvasWidth = 640
    /\ canvasHeight = 480
    /\ startPc = [i \in StartIds |-> "idle"]
    /\ loops = {}
    /\ delivered = NoDelivery
    /\ trackerCalls = << >>

\* an AirCanvas whose constructor has called init(): init is at
\* "await this.handTracker.start(...)"
InitSession ==
    /\ initPc = "start"
    /\ lastFrameTime = 0
    /\ frameRequested = FALSE
    /\ renderCalls = << >>
    /\ initCalls = << >>

Init ==
    /\ InitMain
    /\ samplerVariant = "raw"
    /\ InitSampler
    /\ InitPointer
    /\ trackerVariant = "raf"
    /\ InitTracker
    /\ InitSession

Next ==
    \/ FrameNull
    \/ \E position \in Points, hitObject \in 0 .. MaxObjects :
          FrameDraw(position, hitObject)
    \/ \E pinchCenter \in Points, hitObject \in 0 .. MaxObjects :
          FramePinch(pinchCenter, hitObject)
    \/ FramePalm
    \/ FrameFist
    \/ \E hitObject \in 0 .. MaxObjects : FrameSwipe(hitObject)
    \/ FrameNone
    \/ \E a \in anims, outcome \in CreateOutcomes : AnimationFrame(a, outcome)
    \/ \E stroke \in pendingCreate, ok \in BOOLEAN : CreateSettles(stroke, ok)
    \/ ClearAllResolves
    \/ \E color \in Colors : SelectColor(color)
    \/ Tick

Spec == Init /\ [][Next]_vars

\* The clock advances, and the browser delivers the animation frame every
\* running closing animation has requested (requestAnimationFrame).
\* Every action of Next; startStroke allocates at most FairMaxStrokes strokes.
FairNext ==
    \/ FrameNull
    \/ \E position \in Points, hitObject \in 0 .. MaxObjects :
          FrameDraw(position, hitObject)
             /\ nextStrokeId' <= FairMaxStrokes + 1
    \/ \E pinchCenter \in Points, hitObject \in 0 .. MaxObjects :
          FramePinch(pinchCenter, hitObject)
    \/ FramePalm
    \/ FrameFist
    \/ \E hitObject \in 0 .. MaxObjects : FrameSwipe(hitObject)
    \/ FrameNone
    \/ \E a \in anims, outcome \in CreateOutcomes : AnimationFrame(a, outcome)
    \/ \E stroke \in pendingCreate, ok \in BOOLEAN : CreateSettles(stroke, ok)
    \/ ClearAllResolves
    \/ \E color \in Colors : SelectColor(color)
    \/ Tick

FairSpec ==
    /\ Init
    /\ [][FairNext]_vars
    /\ WF_vars(Tick)
    /\ \A id \in 1 .. FairMaxStrokes :
          WF_vars(\E a \in anims, outcome \in CreateOutcomes :
                     a.stroke.id = id /\ AnimationFrame(a, outcome))

\* FairSpec, and every createFromStroke promise that is pending settles
SettleSpec ==
    /\ FairSpec
    /\ WF_vars(\E stroke \in pendingCreate, ok \in BOOLEAN :
                  CreateSettles(stroke, ok))

(***************************************************************************)
(* DrawingCanvas fed directly through startStroke / addPoint: the raw      *)
(* sampler (src/src/drawingCanvas.ts) and the EMA sampler                  *)
(* (src/unnamed/part_000).  Coordinates are in units of 1/SamplerUnit      *)
(* pixel, SamplerUnit = SMOOTHING_DEN^3, so that three successive          *)
(* smoothing steps on whole-pixel input are exact.                         *)
(***************************************************************************)
SamplerVariants == {"raw", "smooth", "ema"}

SamplerUnit == 8000

\* SMOOTHING_FACTOR = 0.15 = SMOOTHING_NUM / SMOOTHING_DEN
SMOOTHING_NUM == 3
SMOOTHING_DEN == 20

\* STROKE.SMOOTHING = STROKE_SMOOTHING_NUM / STROKE_SMOOTHING_DEN.  The
\* constants file is not among the sources; a half is taken, and every value
\* strictly between 0 and 1 moves the pushed point towards the previous one
STROKE_SMOOTHING_NUM == 1
STROKE_SMOOTHING_DEN == 2

\* raw fingertip positions: 0, 2 and 4 pixels down the y axis
RawPoints == {[x |-> 0, y |-> k * (SamplerUnit * 2)] : k \in 0 .. 2}

\* one coordinate of smoothPoint: s + (p - s) * (1 - SMOOTHING_FACTOR)
smoothCoord(s, p) ==
    s + ((p - s) * (SMOOTHING_DEN - SMOOTHING_NUM)) \div SMOOTHING_DEN

smoothPoint(point) ==
    IF smoothedPosition = NoPoint THEN point
    ELSE [x |-> smoothCoord(smoothedPosition.x, point.x),
          y |-> smoothCoord(smoothedPosition.y, point.y)]

\* distance(p1, p2) >= STROKE.MIN_POINT_DISTANCE, compared on the squares
farEnough(p1, p2) ==
    LET dx == p1.x - p2.x
        dy == p1.y - p2.y
        min == MIN_POINT_DISTANCE * SamplerUnit
    IN  dx * dx + dy * dy >= min * min

\* the point addPoint measures the distance of
sampledPoint(point) ==
    IF samplerVariant = "ema" THEN smoothPoint(point) ELSE point

\* smooth(current, previous) of the smoothed variant
smooth(current, previous) ==
    [x |-> previous.x
              + ((current.x - previous.x)
                    * (STROKE_SMOOTHING_DEN - STROKE_SMOOTHING_NUM))
                 \div STROKE_SMOOTHING_DEN,
     y |-> previous.y
              + ((current.y - previous.y)
                    * (STROKE_SMOOTHING_DEN - STROKE_SMOOTHING_NUM))
                 \div STROKE_SMOOTHING_DEN]

\* the point addPoint pushes when the distance test passes
pushedPoint(point, lastPoint) ==
    IF samplerVariant = "smooth" THEN smooth(point, lastPoint)
    ELSE sampledPoint(point)

\* what the sampler has made of the raw stream fed to the current stroke
Sample(raw, accepted) == [raw |-> raw, accepted |-> accepted]

\* startStroke(point, color): a current stroke is replaced
SamplerStartStroke(point) ==
    /\ sStrokes < MaxSamplerStrokes
    /\ sStrokes' = sStrokes + 1
    /\ sPoints' = <<point>>
    /\ sRaw' = <<point>>
    /\ sampled' = sampled \cup {Sample(<<point>>, <<point>>)}
    /\ sDrawn' = NoDraw
    /\ UNCHANGED <<samplerVariant, smoothedPosition, sCompleted, mainVars,
                   pointerVars,
                   trackerVars, sessionVars>>

\* addPoint(point) with a current stroke
SamplerAddPoint(point) ==
    /\ sPoints # << >>
    /\ Len(sRaw) < MaxRawPoints
    /\ sRaw' = Append(sRaw, point)
    /\ smoothedPosition' =
          IF samplerVariant = "ema" THEN smoothPoint(point)
          ELSE smoothedPosition
    /\ sPoints' =
          IF farEnough(sampledPoint(point), sPoints[Len(sPoints)])
          THEN Append(sPoints, pushedPoint(point, sPoints[Len(sPoints)]))
          ELSE sPoints
    /\ sampled' = sampled \cup {Sample(sRaw', sPoints')}
    /\ sDrawn' = NoDraw
    /\ UNCHANGED <<samplerVariant, sStrokes, sCompleted, mainVars,
                   pointerVars,
                   trackerVars, sessionVars>>

\* Math.sqrt, rounded down, by bisection (exact on the y axis)
RECURSIVE SqrtBetween(_, _, _)
SqrtBetween(n, lo, hi) ==
    IF lo >= hi THEN lo
    ELSE LET mid == (lo + hi + 1) \div 2
         IN  IF mid * mid <= n THEN SqrtBetween(n, mid, hi)
             ELSE SqrtBetween(n, lo, mid - 1)

sDistance(p1, p2) ==
    LET dx == p1.x - p2.x
        dy == p1.y - p2.y
    IN  SqrtBetween(dx * dx + dy * dy, 0, 5 * SamplerUnit)

RECURSIVE sSumSegments(_, _)
sSumSegments(pts, i) ==
    IF i > Len(pts) THEN 0
    ELSE sDistance(pts[i - 1], pts[i]) + sSumSegments(pts, i + 1)

\* closeStroke() accepts the current stroke
sCloseAccepts(pts) ==
    LET length == IF Len(pts) < 2 THEN 0 ELSE sSumSegments(pts, 2)
    IN  /\ length >= MIN_STROKE_LENGTH * SamplerUnit
        /\ Len(pts) > 2

\* closeStroke() / discardStroke(): the current stroke is no longer current;
\* a stroke closeStroke accepts is pushed to completedStrokes
SamplerEndStroke ==
    /\ sPoints # << >>
    /\ sPoints' = << >>
    /\ sRaw' = << >>
    /\ sCompleted' =
          IF sCloseAccepts(sPoints) THEN Append(sCompleted, sPoints)
          ELSE sCompleted
    /\ sDrawn' = NoDraw
    /\ UNCHANGED <<samplerVariant, smoothedPosition, sStrokes, sampled,
                   mainVars, pointerVars,
                   trackerVars, sessionVars>>

\* "let points = [...stroke.points]; points.push(this.smoothedPosition)" of
\* renderStrokeWithLiveExtension: the array handed to the spline
livePath(points) ==
    IF samplerVariant = "ema" /\ smoothedPosition # NoPoint
    THEN Append(points, smoothedPosition)
    ELSE points

\* "let points = [...stroke.points]; points.push(stroke.points[0])" of
\* renderStroke and drawStrokePath for a closed stroke
closedPath(points) == Append(points, points[1])

\* faulty variant: "let points = stroke.points", the path is built on the
\* stroke's own array
strokePointsAfterRender_shared(points, path) == path

\* stroke.points after a render built `path` from it: the path is built on
\* a copy, [...stroke.points]
strokePointsAfterRender(points, path) == points

\* render(): the completed strokes, then the current stroke
SamplerRender ==
    /\ sDrawn' =
          [op |-> "render",
           paths |->
              [i \in 1 .. Len(sCompleted) |-> closedPath(sCompleted[i])]
                 \o (IF sPoints # << >> THEN <<livePath(sPoints)>>
                     ELSE << >>)]
    /\ sCompleted' =
          [i \in 1 .. Len(sCompleted) |->
              strokePointsAfterRender(sCompleted[i],
                                      closedPath(sCompleted[i]))]
    /\ sPoints' =
          IF sPoints # << >>
          THEN strokePointsAfterRender(sPoints, livePath(sPoints))
          ELSE sPoints
    /\ UNCHANGED <<samplerVariant, smoothedPosition, sRaw, sStrokes, sampled,
                   mainVars, pointerVars,
                   trackerVars, sessionVars>>

\* renderClosingAnimation(stroke, progress): the glow pass and the main pass
\* both go through drawStrokePath(stroke)
SamplerRenderClosing(i) ==
    /\ i \in 1 .. Len(sCompleted)
    /\ sDrawn' =
          [op |-> "renderClosingAnimation",
           paths |-> <<closedPath(sCompleted[i]), closedPath(sCompleted[i])>>]
    /\ sCompleted' =
          [sCompleted EXCEPT
              ![i] = strokePointsAfterRender(@, closedPath(@))]
    /\ UNCHANGED <<samplerVariant, sPoints, smoothedPosition, sRaw, sStrokes,
                   sampled, mainVars, pointerVars,
                   trackerVars, sessionVars>>

SamplerInit ==
    /\ InitMain
    /\ samplerVariant \in SamplerVariants
    /\ InitSampler
    /\ InitPointer
    /\ trackerVariant = "raf"
    /\ InitTracker
    /\ InitSession

SamplerNext ==
    \/ \E point \in RawPoints : SamplerStartStroke(point)
    \/ \E point \in RawPoints : SamplerAddPoint(point)
    \/ SamplerEndStroke
    \/ SamplerRender
    \/ \E i \in 1 .. MaxSamplerStrokes : SamplerRenderClosing(i)

SamplerSpec == SamplerInit /\ [][SamplerNext]_vars

(***************************************************************************)
(* Mouse and touch controls of the 3D scene (remove-first variant).  The   *)
(* browser delivers mousedown, mousemove, mouseup, mouseleave, touchstart, *)
(* touchmove and touchend in any order; the hit test of a press returns    *)
(* any object or null.                                                     *)
(***************************************************************************)
PointerObjects == 1 .. MaxPointerObjects

\* the event and, for a touch event, e.touches.length
PointerEvent(name, touches) ==
    Call(name, NoObject, 0, touches, NoPoint, "")

\* onMouseDown(e) and the single-touch branch of onTouchStart(e)
press(position, hitObject) ==
    /\ hitObject \in PointerObjects \cup {NoObject}
    /\ isDragging' = TRUE
    /\ lastMouse' = position
    /\ selectedObject' =
          IF hitObject # NoObject THEN hitObject ELSE selectedObject
    /\ pressHit' = IF isDragging THEN pressHit ELSE hitObject

\* the body of onMouseMove(e) / onTouchMove(e) after the early return
dragCalls(position) ==
    LET delta == [x |-> position.x - lastMouse.x,
                  y |-> position.y - lastMouse.y]
    IN  IF selectedObject # NoObject
        THEN <<Call("rotateObject", selectedObject, 0, 0, delta, "")>>
        ELSE <<Call("orbitCamera", NoObject, 0, 0, delta, "")>>

MouseDown(position, hitObject) ==
    /\ press(position, hitObject)
    /\ pointerCalls' = <<PointerEvent("mousedown", 0), hitTest(hitObject)>>
    /\ UNCHANGED <<mainVars, samplerVars,
                   trackerVars, sessionVars>>

MouseMove(position) ==
    /\ pointerCalls' = <<PointerEvent("mousemove", 0)>> \o
          (IF isDragging THEN dragCalls(position) ELSE << >>)
    /\ lastMouse' = IF isDragging THEN position ELSE lastMouse
    /\ UNCHANGED <<isDragging, selectedObject, pressHit, mainVars,
                   samplerVars,
                   trackerVars, sessionVars>>

\* onMouseUp(), the listener of mouseup, mouseleave and touchend
MouseUp(event) ==
    /\ event \in {"mouseup", "mouseleave", "touchend"}
    /\ isDragging' = FALSE
    /\ selectedObject' = NoObject
    /\ pressHit' = NoObject
    /\ pointerCalls' = <<PointerEvent(event, 0)>>
    /\ UNCHANGED <<lastMouse, mainVars, samplerVars,
                   trackerVars, sessionVars>>

TouchStart(touches, position, hitObject) ==
    /\ touches \in 1 .. MaxTouches
    /\ IF touches = 1
       THEN /\ press(position, hitObject)
            /\ pointerCalls' =
                  <<PointerEvent("touchstart", touches), hitTest(hitObject)>>
       ELSE /\ hitObject = NoObject
            /\ pointerCalls' = <<PointerEvent("touchstart", touches)>>
            /\ UNCHANGED <<isDragging, selectedObject, lastMouse, pressHit>>
    /\ UNCHANGED <<mainVars, samplerVars,
                   trackerVars, sessionVars>>

TouchMove(touches, position) ==
    /\ touches \in 1 .. MaxTouches
    /\ pointerCalls' = <<PointerEvent("touchmove", touches)>> \o
          (IF isDragging /\ touches = 1 THEN dragCalls(position) ELSE << >>)
    /\ lastMouse' =
          IF isDragging /\ touches = 1 THEN position ELSE lastMouse
    /\ UNCHANGED <<isDragging, selectedObject, pressHit, mainVars,
                   samplerVars,
                   trackerVars, sessionVars>>

PointerInit ==
    /\ InitMain
    /\ variant = "removeFirst"
    /\ samplerVariant = "raw"
    /\ InitSampler
    /\ InitPointer
    /\ trackerVariant = "raf"
    /\ InitTracker
    /\ InitSession

PointerNext ==
    \/ \E position \in Points, hitObject \in 0 .. MaxPointerObjects :
          MouseDown(position, hitObject)
    \/ \E position \in Points : MouseMove(position)
    \/ \E event \in {"mouseup", "mouseleave", "touchend"} : MouseUp(event)
    \/ \E touches \in 1 .. MaxTouches, position \in Points,
          hitObject \in 0 .. MaxPointerObjects :
          TouchStart(touches, position, hitObject)
    \/ \E touches \in 1 .. MaxTouches, position \in Points :
          TouchMove(touches, position)

PointerSpec == PointerInit /\ [][PointerNext]_vars

(***************************************************************************)
(* HandTracker on its own: start() and stop() called at any moment, with   *)
(* the awaits of start() and of the frame loop pending in between.  The    *)
(* "raf" tracker (src/src/drawingCanvas.ts:232-350) runs processFrame on   *)
(* requestAnimationFrame; the "camera" tracker (src/src/handTracking.ts)   *)
(* hands the loop to a MediaPipe Camera.                                   *)
(***************************************************************************)
TrackerVariants == {"raf", "camera"}

\* Normalised landmark coordinates are multiples of 1/NormDen.
NormDen == 4
\* number of landmarks of a hand
LandmarkCount == 2
\* number of hands in one Results
MaxHands == 2
NormPoints == {[x |-> 1, y |-> 0], [x |-> NormDen, y |-> 1]}
Hands == [1 .. LandmarkCount -> NormPoints]
\* results.multiHandLandmarks
TrackerResults == UNION {[1 .. n -> Hands] : n \in 0 .. MaxHands}
CanvasSizes == {[width |-> 640, height |-> 480],
                [width |-> 800, height |-> 600]}

\* faulty variant: x is not mirrored
convertedLandmarks_unmirrored(landmarks) ==
    [i \in 1 .. Len(landmarks) |->
        [x |-> (landmarks[i].x * canvasWidth) \div NormDen,
         y |-> (landmarks[i].y * canvasHeight) \div NormDen]]

\* landmarks.map((lm) => ({ x: (1 - lm.x) * canvasWidth,
\*                          y: lm.y * canvasHeight }))
convertedLandmarks(landmarks) ==
    [i \in 1 .. Len(landmarks) |->
        [x |-> ((NormDen - landmarks[i].x) * canvasWidth) \div NormDen,
         y |-> (landmarks[i].y * canvasHeight) \div NormDen]]

CallbackCall(cb, landmarks) == [cb |-> cb, landmarks |-> landmarks]

\* onResults(results): the invocations of the callback
onResults(results) ==
    IF callback = NoCallback THEN << >>
    ELSE IF Len(results) > 0
         THEN <<CallbackCall(callback, convertedLandmarks(results[1]))>>
         ELSE <<CallbackCall(callback, NoLandmarks)>>

\* a frame-processing loop: the start() that began it, where it stands
\* ("scheduled": waiting for its animation frame; "send": awaiting
\* hands.send; "starting" / "camera": the loop of a Camera) and the handle
\* of the animation frame it waits for
Loop(start, pc, handle) == [start |-> start, pc |-> pc, handle |-> handle]

\* requestAnimationFrame returns a handle no pending request has and that
\* differs from every handle returned before; of those only the one kept in
\* animationId is ever read again
freshHandle ==
    CHOOSE h \in 1 .. (MaxStarts + 1) :
       /\ h # animationId
       /\ \A l \in loops : l.handle # h

\* a step that hands nothing to onResults
Quiet ==
    /\ delivered' = NoDelivery
    /\ trackerCalls' = << >>

\* setCanvasSize(width, height)
SetCanvasSize(size) ==
    /\ canvasWidth' = size.width
    /\ canvasHeight' = size.height
    /\ Quiet
    /\ UNCHANGED <<trackerVariant, callback, isRunning, animationId, camera,
                   startPc, loops, mainVars, samplerVars, pointerVars,
                   sessionVars>>

\* start(callback) up to its first await: the callback is registered, and a
\* running tracker returns at once
StartCall(i) ==
    /\ startPc[i] = "idle"
    /\ \A j \in StartIds : j < i => startPc[j] # "idle"
    /\ callback' = i
    /\ startPc' = [startPc EXCEPT
                      ![i] = IF isRunning THEN "done" ELSE "getUserMedia"]
    /\ Quiet
    /\ UNCHANGED <<trackerVariant, isRunning, animationId, camera,
                   canvasWidth, canvasHeight, loops, mainVars, samplerVars,
                   pointerVars, sessionVars>>

\* navigator.mediaDevices.getUserMedia settles; start() goes on to
\* videoElement.play(), or throws
StartGotStream(i, ok) ==
    /\ startPc[i] = "getUserMedia"
    /\ startPc' = [startPc EXCEPT ![i] = IF ok THEN "play" ELSE "failed"]
    /\ Quiet
    /\ UNCHANGED <<trackerVariant, callback, isRunning, animationId, camera,
                   canvasWidth, canvasHeight, loops, mainVars, samplerVars,
                   pointerVars, sessionVars>>

\* processFrame() of the raf tracker up to its await or its end: a stopped
\* tracker ends the loop; a ready video is sent to the tracker; otherwise
\* the next animation frame is requested
processFrame(i, ready) ==
    IF ~isRunning' THEN [loop |-> {}, animationId |-> animationId]
    ELSE IF ready
         THEN [loop |-> {Loop(i, "send", NoHandle)},
               animationId |-> animationId]
         ELSE [loop |-> {Loop(i, "scheduled", freshHandle)},
               animationId |-> freshHandle]

\* videoElement.play() settles.  The raf tracker sets isRunning and calls
\* processFrame(); the camera tracker creates the Camera and awaits its
\* start().
StartPlayed(i, ok, ready) ==
    /\ startPc[i] = "play"
    /\ IF ~ok
       THEN /\ startPc' = [startPc EXCEPT ![i] = "failed"]
            /\ UNCHANGED <<isRunning, animationId, camera, loops>>
       ELSE IF trackerVariant = "raf"
            THEN /\ isRunning' = TRUE
                 /\ loops' = loops \cup processFrame(i, ready).loop
                 /\ animationId' = processFrame(i, ready).animationId
                 /\ startPc' = [startPc EXCEPT ![i] = "done"]
                 /\ UNCHANGED camera
            ELSE /\ camera' = i
                 /\ loops' = loops \cup {Loop(i, "starting", NoHandle)}
                 /\ startPc' = [startPc EXCEPT ![i] = "cameraStart"]
                 /\ UNCHANGED <<isRunning, animationId>>
    /\ Quiet
    /\ UNCHANGED <<trackerVariant, callback, canvasWidth, canvasHeight,
                   mainVars, samplerVars, pointerVars, sessionVars>>

\* camera.start() settles: the Camera calls onFrame on every frame from now
\* on unless it was stopped in the meantime, and start() sets isRunning; a
\* Camera that fails to start runs no loop and start() throws
StartCameraStarted(i, ok) ==
    /\ startPc[i] = "cameraStart"
    /\ IF ok
       THEN /\ isRunning' = TRUE
            /\ loops' = {IF l.start = i /\ l.pc = "starting"
                         THEN Loop(i, "camera", NoHandle) ELSE l : l \in loops}
            /\ startPc' = [startPc EXCEPT ![i] = "done"]
       ELSE /\ loops' = {l \in loops : ~(l.start = i /\ l.pc = "starting")}
            /\ startPc' = [startPc EXCEPT ![i] = "failed"]
            /\ UNCHANGED isRunning
    /\ Quiet
    /\ UNCHANGED <<trackerVariant, callback, animationId, camera,
                   canvasWidth, canvasHeight, mainVars, samplerVars,
                   pointerVars, sessionVars>>

\* the animation frame a loop of the raf tracker waits for arrives:
\* processFrame()
ProcessFrame(l, ready) ==
    /\ l \in loops
    /\ l.pc = "scheduled"
    /\ isRunning' = isRunning
    /\ loops' = (loops \ {l}) \cup processFrame(l.start, ready).loop
    /\ animationId' = processFrame(l.start, ready).animationId
    /\ Quiet
    /\ UNCHANGED <<trackerVariant, callback, camera, canvasWidth,
                   canvasHeight, startPc, mainVars, samplerVars, pointerVars,
                   sessionVars>>

\* hands.send() of a loop of the raf tracker resolves: the tracker has
\* handed its Results to onResults, and processFrame requests the next
\* animation frame
SendResolves(l, results) ==
    /\ l \in loops
    /\ l.pc = "send"
    /\ delivered' = [given |-> TRUE, results |-> results]
    /\ trackerCalls' = onResults(results)
    /\ animationId' = freshHandle
    /\ loops' = (loops \ {l}) \cup {Loop(l.start, "scheduled", freshHandle)}
    /\ UNCHANGED <<trackerVariant, callback, isRunning, camera, canvasWidth,
                   canvasHeight, startPc, mainVars, samplerVars, pointerVars,
                   sessionVars>>

\* a started Camera has a frame: onFrame sends it to the tracker, which
\* hands its Results to onResults
CameraFrame(l, results) ==
    /\ l \in loops
    /\ l.pc = "camera"
    /\ delivered' = [given |-> TRUE, results |-> results]
    /\ trackerCalls' = onResults(results)
    /\ UNCHANGED <<trackerVariant, callback, isRunning, animationId, camera,
                   canvasWidth, canvasHeight, startPc, loops, mainVars,
                   samplerVars, pointerVars, sessionVars>>

\* stop()
Stop ==
    /\ isRunning' = FALSE
    /\ IF trackerVariant = "raf"
       THEN /\ animationId' = NoHandle
            /\ loops' = {l \in loops :
                            ~(animationId # NoHandle
                                 /\ l.pc = "scheduled"
                                 /\ l.handle = animationId)}
            /\ UNCHANGED camera
       ELSE /\ camera' = NoCamera
            /\ loops' = {l \in loops :
                            ~(camera # NoCamera /\ l.start = camera)}
            /\ UNCHANGED animationId
    /\ Quiet
    /\ UNCHANGED <<trackerVariant, callback, canvasWidth, canvasHeight,
                   startPc, mainVars, samplerVars, pointerVars, sessionVars>>

TrackerInit ==
    /\ InitMain
    /\ variant = "removeFirst"
    /\ samplerVariant = "raw"
    /\ InitSampler
    /\ InitPointer
    /\ trackerVariant \in TrackerVariants
    /\ InitTracker
    /\ InitSession

TrackerNext ==
    \/ \E size \in CanvasSizes : SetCanvasSize(size)
    \/ \E i \in StartIds : StartCall(i)
    \/ \E i \in StartIds, ok \in BOOLEAN : StartGotStream(i, ok)
    \/ \E i \in StartIds, ok \in BOOLEAN, ready \in BOOLEAN :
          StartPlayed(i, ok, ready)
    \/ \E i \in StartIds, ok \in BOOLEAN : StartCameraStarted(i, ok)
    \/ \E l \in loops, ready \in BOOLEAN : ProcessFrame(l, ready)
    \/ \E l \in loops, results \in TrackerResults : SendResolves(l, results)
    \/ \E l \in loops, results \in TrackerResults : CameraFrame(l, results)
    \/ Stop

TrackerSpec == TrackerInit /\ [][TrackerNext]_vars

(***************************************************************************)
(* AirCanvas.init and the render loop (remove-first main.ts).  init awaits *)
(* handTracker.start(callback 1); the tracker's loop then feeds            *)
(* onHandResults, and animate runs once per animation frame.  The clock is *)
(* coarse: animate runs at most once per tick.                             *)
(***************************************************************************)
InitFailureText ==
    "Camera access denied. Please allow camera access and refresh."

\* faulty variant: the 2D layer is rendered before the 3D scene
animateCalls_swapped ==
    <<"objectManager.update", "drawingCanvas.render", "scene3D.render",
      "handVisualizer.render">>

\* the calls of animate() after requestAnimationFrame(() => this.animate())
animateCalls ==
    <<"objectManager.update", "scene3D.render", "drawingCanvas.render",
      "handVisualizer.render">>

\* animate()
animate ==
    /\ frameRequested' = TRUE
    /\ lastFrameTime' = now
    /\ renderCalls' = animateCalls

\* faulty variant: the catch block starts the render loop as well
InitFails_animates ==
    /\ initPc = "start"
    /\ startPc[1] = "failed"
    /\ initPc' = "failed"
    /\ initCalls' = <<showStatus(InitFailureText, 0)>>
    /\ animate
    /\ UNCHANGED <<mainVars, samplerVars, pointerVars, trackerVars>>

\* handTracker.start() has thrown: the catch block of init()
InitFails ==
    /\ initPc = "start"
    /\ startPc[1] = "failed"
    /\ initPc' = "failed"
    /\ initCalls' = <<showStatus(InitFailureText, 0)>>
    /\ UNCHANGED <<lastFrameTime, frameRequested, renderCalls, mainVars,
                   samplerVars, pointerVars, trackerVars>>

\* handTracker.start() has resolved: init() sets up the preview, hides the
\* loading overlay and calls animate()
InitSucceeds ==
    /\ initPc = "start"
    /\ startPc[1] = "done"
    /\ initPc' = "running"
    /\ initCalls' = <<PlainCall("setupCameraPreview"),
                      PlainCall("loadingOverlay.hide"), PlainCall("animate")>>
    /\ animate
    /\ UNCHANGED <<mainVars, samplerVars, pointerVars, trackerVars>>

\* the animation frame animate has requested arrives
RenderFrame ==
    /\ frameRequested
    /\ now > lastFrameTime
    /\ animate
    /\ UNCHANGED <<initPc, initCalls, mainVars, samplerVars, pointerVars,
                   trackerVars>>

\* the tracker hands a result to the callback init registered
trackerFeeds ==
    /\ callback = 1
    /\ \E l \in loops : l.pc \in {"send", "camera"}

\* onHandResults on a result of the tracker; the hand draws, shows the palm
\* or is at rest
SessionFrame ==
    /\ trackerFeeds
    /\ \/ FrameNull
       \/ \E position \in Points, hitObject \in 0 .. MaxObjects :
             FrameDraw(position, hitObject)
                /\ nextStrokeId' <= FairMaxStrokes + 1
       \/ FramePalm
       \/ FrameNone

SessionInit ==
    /\ InitMain
    /\ variant = "removeFirst"
    /\ samplerVariant = "raw"
    /\ InitSampler
    /\ InitPointer
    /\ trackerVariant \in TrackerVariants
    /\ InitTracker
    /\ InitSession

SessionNext ==
    \/ StartCall(1)
    \/ \E ok \in BOOLEAN : StartGotStream(1, ok)
    \/ \E ok \in BOOLEAN, ready \in BOOLEAN : StartPlayed(1, ok, ready)
    \/ \E ok \in BOOLEAN : StartCameraStarted(1, ok)
    \/ \E l \in loops, ready \in BOOLEAN : ProcessFrame(l, ready)
    \/ InitFails
    \/ InitSucceeds
    \/ RenderFrame
    \/ SessionFrame
    \/ \E a \in anims, outcome \in CreateOutcomes : AnimationFrame(a, outcome)
    \/ \E stroke \in pendingCreate, ok \in BOOLEAN : CreateSettles(stroke, ok)
    \/ Tick

SessionSpec == SessionInit /\ [][SessionNext]_vars

(***************************************************************************)
(* Reading the trace of a step                                             *)
(***************************************************************************)
HasCall(cs, op) == \E i \in 1 .. Len(cs) : cs[i].op = op

CountCalls(cs, op) == Cardinality({i \in 1 .. Len(cs) : cs[i].op = op})

\* the gesture of the tracked frame that produced the trace cs ("" if the
\* step was no tracker frame, "null" for a null-landmark frame)
FrameOf(cs) ==
    IF Len(cs) > 0 /\ cs[1].op = "onHandResults" THEN cs[1].msg ELSE ""

\* the object returned by the hit test of the step (NoObject if none was made)
HitOf(cs) ==
    IF HasCall(cs, "getObjectAtPosition")
    THEN (CHOOSE c \in {cs[i] : i \in 1 .. Len(cs)} :
             c.op = "getObjectAtPosition").obj
    ELSE NoObject

\* the pointer event that produced the trace cs
FrameOfPointer(cs) == IF Len(cs) > 0 THEN cs[1].op ELSE ""

Range(seq) == {seq[i] : i \in 1 .. Len(seq)}

\* the entries of the trace cs made by operation op
CallsOf(cs, op) == {c \in Range(cs) : c.op = op}

CompletedIds(completed) == {completed[i].id : i \in 1 .. Len(completed)}

\* a stroke closeStroke accepts: more than 2 points, long enough
ValidStroke(s) ==
    /\ s # NoStroke
    /\ Len(s.points) > 2
    /\ calculateStrokeLength(s) >= MIN_STROKE_LENGTH

(***************************************************************************)
(* Claims                                                                  *)
(***************************************************************************)

\* C1: drawing and grabbing are never active together: isDrawing is never
\* true while grabbedObject is non-null (grabbedObject holds at most one
\* object reference).  Violated by the code: handleDraw never releases.
C1_DrawingExcludesGrabbing == ~(isDrawing /\ grabbedObject # NoObject)

\* C2: while an object is grabbed a draw frame over empty canvas starts no
\* stroke, and at the end of every tracked frame whose gesture is not pinch
\* (draw, palm, fist, swipe, none) nothing is grabbed any more.  Violated by
\* the code: only handlePalm and the default case release.
C2_ReleasedOnFirstNonPinchFrame ==
    /\ FrameOf(calls) \in {"draw", "palm", "fist", "swipe", "none"}
          => grabbedObject = NoObject
    /\ HasCall(calls, "startStroke") => grabbedObject = NoObject

\* C3: a palm (fist) hold that is interrupted by another gesture kind before
\* PALM_HOLD_TIME (FIST_HOLD_TIME) has elapsed since its timer was started
\* never fires: on every frame whose gesture differs from the one of the
\* frame before, both palmHoldStart and fistHoldStart are 0 afterwards, and
\* closeAndInflate (clearAll) is called only on a palm (fist) frame that
\* follows a palm (fist) frame, with a timer that was running before the
\* frame and has run for at least the hold time.
C3_HoldAbortedOnGestureChange ==
    [][ /\ (lastGestureState # NoGesture /\ lastGestureState' # lastGestureState)
              => (palmHoldStart' = 0 /\ fistHoldStart' = 0)
        /\ HasCall(calls', "closeAndInflate")
              => /\ lastGestureState = "palm" /\ lastGestureState' = "palm"
                 /\ palmHoldStart # 0
                 /\ now' - palmHoldStart >= PALM_HOLD_TIME
        /\ HasCall(calls', "clearAll")
              => /\ lastGestureState = "fist" /\ lastGestureState' = "fist"
                 /\ fistHoldStart # 0
                 /\ now' - fistHoldStart >= FIST_HOLD_TIME
      ]_vars

\* a fist hold whose timer had run for less than FIST_HOLD_TIME is cut by a
\* 'none' frame: the running timer is overwritten with 0, nothing is cleared
C3_Witness ==
    /\ FrameOf(calls) = "none"
    /\ \E c \in CallsOf(calls, "fistHoldStart = 0") :
          c.num # 0 /\ c.num < now /\ now - c.num < FIST_HOLD_TIME
    /\ fistHoldStart = 0 /\ palmHoldStart = 0
    /\ ~HasCall(calls, "clearAll")

\* C4: with a valid current stroke, palm frames that follow one another and
\* span at least PALM_HOLD_TIME close the stroke: at the end of a palm frame
\* that lies PALM_HOLD_TIME or more after the first frame of its run of palm
\* frames, no valid stroke is left current.  Violated by the code: the reset
\* at the end of handleGesture wipes the timer the first palm frame started.
C4_PalmHoldClosesValidStroke ==
    (/\ FrameOf(calls) = "palm"
     /\ holdSpanStart # 0
     /\ now - holdSpanStart >= PALM_HOLD_TIME) => ~ValidStroke(currentStroke)

\* C5 as stated: closeStroke() on a valid current stroke returns it with
\* closed = true and leaves no current stroke, and a completed stroke leaves
\* the completed set only by removeCompletedStroke called with it.  Violated:
\* the store's clearAll() empties the completed set.
C5_CompletedUntilRemoved ==
    [][ /\ (HasCall(calls', "closeStroke") /\ ValidStroke(currentStroke))
              => /\ currentStroke' = NoStroke
                 /\ completedStrokes' =
                       Append(completedStrokes,
                              [currentStroke EXCEPT !.closed = TRUE])
                 /\ \A c \in CallsOf(calls', "closeStroke") :
                       c.stroke = currentStroke.id
        /\ \A s \in Range(completedStrokes) :
              s \notin Range(completedStrokes')
                 => \E c \in CallsOf(calls', "removeCompletedStroke") :
                       c.stroke = s.id
      ]_vars

\* C5 amended: closeStroke() on a valid current stroke returns it with
\* closed = true and leaves no current stroke, and a completed stroke leaves
\* the completed set only by removeCompletedStroke called with it or by the
\* store's clearAll().
C5_CompletedUntilRemovedOrCleared ==
    [][ /\ (HasCall(calls', "closeStroke") /\ ValidStroke(currentStroke))
              => /\ currentStroke' = NoStroke
                 /\ completedStrokes' =
                       Append(completedStrokes,
                              [currentStroke EXCEPT !.closed = TRUE])
                 /\ \A c \in CallsOf(calls', "closeStroke") :
                       c.stroke = currentStroke.id
        /\ \A s \in Range(completedStrokes) :
              s \notin Range(completedStrokes')
                 => \/ \E c \in CallsOf(calls', "removeCompletedStroke") :
                          c.stroke = s.id
                    \/ HasCall(calls', "drawingCanvas.clearAll")
      ]_vars

\* closeStroke() has just returned a stroke: it is closed, it is the last of
\* the completed set, and there is no current stroke
C5_Witness ==
    /\ \E c \in CallsOf(calls, "closeStroke") :
          /\ c.stroke # 0
          /\ c.num > 2
          /\ Len(completedStrokes) > 0
          /\ completedStrokes[Len(completedStrokes)].id = c.stroke
          /\ completedStrokes[Len(completedStrokes)].closed
    /\ currentStroke = NoStroke

\* C6: closeStroke() on a current stroke that is shorter than
\* MIN_STROKE_LENGTH or has 2 or fewer points returns null, leaves no current
\* stroke and leaves the completed set as it was; closeStroke() without a
\* current stroke returns null and changes nothing in the store.
C6_CloseStrokeRejects ==
    [][ (HasCall(calls', "closeStroke") /\ ~ValidStroke(currentStroke))
           => /\ \A c \in CallsOf(calls', "closeStroke") : c.stroke = 0
              /\ currentStroke' = NoStroke
              /\ completedStrokes' = completedStrokes
              /\ currentStroke = NoStroke => UNCHANGED storeVars
      ]_vars

\* closeStroke() has just rejected a current stroke of 1 or 2 points
C6_Witness ==
    /\ \E c \in CallsOf(calls, "closeStroke") :
          c.stroke = 0 /\ c.num \in {1, 2}
    /\ currentStroke = NoStroke
    /\ \E c \in CallsOf(calls, "showStatus") : c.msg = "Draw a larger shape"

\* C7: a swipe frame whose hit test returns object o calls removeObject
\* exactly once, with o, on that very frame and whatever the hold timers
\* are; a swipe frame whose hit test returns nothing calls no removeObject;
\* the swipe handler touches neither the strokes nor isDrawing nor the hold
\* timers (the values the reset after the handler overwrites are the ones
\* from before the frame), and it fires neither closure nor clearAll.
C7_SwipeRemovesHitObjectOnce ==
    [][ FrameOf(calls') = "swipe"
           => /\ CountCalls(calls', "getObjectAtPosition") = 1
              /\ CountCalls(calls', "removeObject") =
                    IF HitOf(calls') # NoObject THEN 1 ELSE 0
              /\ \A c \in CallsOf(calls', "removeObject") :
                    c.obj = HitOf(calls')
              /\ UNCHANGED <<isDrawing, storeVars>>
              /\ \A c \in CallsOf(calls', "palmHoldStart = 0") :
                    c.num = palmHoldStart
              /\ \A c \in CallsOf(calls', "fistHoldStart = 0") :
                    c.num = fistHoldStart
              /\ palmHoldStart' \in {palmHoldStart, 0}
              /\ fistHoldStart' \in {fistHoldStart, 0}
              /\ ~HasCall(calls', "closeAndInflate")
              /\ ~HasCall(calls', "clearAll")
      ]_vars

\* a swipe frame has hit an object while a fist hold timer was running
C7_Witness ==
    /\ FrameOf(calls) = "swipe"
    /\ HitOf(calls) # NoObject
    /\ CountCalls(calls, "removeObject") = 1
    /\ HitOf(calls) \notin objects
    /\ \E c \in CallsOf(calls, "fistHoldStart = 0") : c.num # 0

\* C8: the progress values a closing animation passes to
\* renderClosingAnimation never decrease and stay within [0, 1] (0 ..
\* STROKE_CLOSE_PULSE_MS as numerators); the animation ends, and createBalloon
\* is called, only with a step at progress exactly 1; and when the clock
\* advances and animation frames keep being delivered, every animation that
\* has started takes that last step.
C8_ClosingAnimationProgress ==
    /\ [][ /\ \A c \in CallsOf(calls', "renderClosingAnimation") :
                 /\ c.num \in 0 .. STROKE_CLOSE_PULSE_MS
                 /\ \A a \in anims :
                       a.stroke.id = c.stroke => c.num >= a.progress
           /\ \A a \in anims' :
                 /\ a.progress \in 0 .. (STROKE_CLOSE_PULSE_MS - 1)
                 /\ \A b \in anims :
                       b.stroke.id = a.stroke.id => a.progress >= b.progress
           /\ \A a \in anims :
                 (\A b \in anims' : b.stroke.id # a.stroke.id)
                    => \E c \in CallsOf(calls', "renderClosingAnimation") :
                          c.stroke = a.stroke.id
                             /\ c.num = STROKE_CLOSE_PULSE_MS
           /\ \A c \in CallsOf(calls', "createBalloon") :
                 \E r \in CallsOf(calls', "renderClosingAnimation") :
                    r.stroke = c.stroke /\ r.num = STROKE_CLOSE_PULSE_MS
         ]_vars
    /\ \A id \in 1 .. FairMaxStrokes :
          (\E a \in anims : a.stroke.id = id)
             ~> (\E c \in CallsOf(calls, "renderClosingAnimation") :
                    c.stroke = id /\ c.num = STROKE_CLOSE_PULSE_MS)

\* a closing animation has just taken its last step, at progress 1, and
\* createBalloon was called with its stroke
C8_Witness ==
    \E c \in CallsOf(calls, "renderClosingAnimation") :
       /\ c.num = STROKE_CLOSE_PULSE_MS
       /\ \A a \in anims : a.stroke.id # c.stroke
       /\ \E b \in CallsOf(calls, "createBalloon") : b.stroke = c.stroke

\* C9: when createFromStroke(stroke) fails, the stroke is not in the
\* completed set.  Violated by the colour-index variant of createBalloon,
\* which removes the stroke only after createFromStroke has succeeded.
C9_FailedCreateLeavesNoStroke ==
    \A c \in CallsOf(calls, "createFromStroke.rejected") :
       c.stroke \notin CompletedIds(completedStrokes)

\* C10: fist frames that follow one another and span at least FIST_HOLD_TIME
\* clear everything: at the end of a fist frame the running span is shorter
\* than FIST_HOLD_TIME (a span that reached it was consumed by clearAll), and
\* a frame that calls clearAll calls the store's and the object manager's
\* clearAll once each, leaves no current stroke and no completed stroke, and
\* leaves fistHoldStart 0.  Violated by the code: the reset at the end of
\* handleGesture wipes the timer the first fist frame started.
C10_FistHoldClearsAll ==
    /\ (FrameOf(calls) = "fist" /\ holdSpanStart # 0)
          => now - holdSpanStart < FIST_HOLD_TIME
    /\ HasCall(calls, "clearAll")
          => /\ CountCalls(calls, "drawingCanvas.clearAll") = 1
             /\ CountCalls(calls, "objectManager.clearAll") = 1
             /\ currentStroke = NoStroke
             /\ completedStrokes = << >>
             /\ fistHoldStart = 0

\* C11: whenever a closed stroke has been handed to the object manager and
\* is removed from the store (removeCompletedStroke is called), the active
\* colour advances by exactly one place in the palette, cyclically; the
\* active colour is always a palette entry; and it changes on no other
\* step.  Violated by the remove-first variant: createBalloon advances
\* nothing, the colour changes only by a click on a swatch.
C11_ColorAdvancesOnSolidification ==
    [][ /\ HasCall(calls', "removeCompletedStroke")
              => activeColor' = COLOR_ARRAY((activeColor + 1) % PaletteLen)
        /\ activeColor \in Colors /\ activeColor' \in Colors
        /\ activeColor' # activeColor
              => HasCall(calls', "removeCompletedStroke")
      ]_vars

\* C12: sampling is deterministic: whenever the same raw point stream has
\* been fed through startStroke and addPoint twice, to one stroke or to two
\* strokes of the same store, the accepted point sequence is the same.
\* Violated by the EMA sampler: smoothedPosition survives the stroke.
C12_SamplingDeterministic ==
    \A r1, r2 \in sampled : r1.raw = r2.raw => r1.accepted = r2.accepted

\* C13: every drag step (a mousemove, or a touchmove of one finger) taken
\* while dragging calls exactly one of rotateObject and orbitCamera:
\* rotateObject, once, on the object the press that began the drag had hit,
\* or orbitCamera, once, if that press had hit nothing; a move taken while
\* not dragging (after mouseup, mouseleave or touchend, before a new press)
\* calls neither.  Violated by the code: a press never clears
\* selectedObject and a further press during the drag replaces it.
C13_DragRotatesPressedObjectOrOrbits ==
    [][ (/\ FrameOfPointer(pointerCalls') \in {"mousemove", "touchmove"}
         /\ pointerCalls'[1].num \in {0, 1})
           => IF ~isDragging
              THEN /\ ~HasCall(pointerCalls', "rotateObject")
                   /\ ~HasCall(pointerCalls', "orbitCamera")
              ELSE IF pressHit # NoObject
              THEN /\ CountCalls(pointerCalls', "rotateObject") = 1
                   /\ \A c \in CallsOf(pointerCalls', "rotateObject") :
                         c.obj = pressHit
                   /\ ~HasCall(pointerCalls', "orbitCamera")
              ELSE /\ CountCalls(pointerCalls', "orbitCamera") = 1
                   /\ ~HasCall(pointerCalls', "rotateObject")
      ]_vars

\* C14: a null-landmark frame discards nothing: it leaves isDrawing false
\* and handDetected false, shows the prompt exactly when a hand had been
\* detected, and changes neither the current stroke and its points, nor the
\* completed set, nor the two hold timers, nor the grabbed object, nor
\* lastGestureState; no gesture handler runs (the frame makes no call but
\* the status message and the preview overlay).
C14_NullFrameKeepsEverything ==
    [][ FrameOf(calls') = "null"
           => /\ isDrawing' = FALSE
              /\ handDetected' = FALSE
              /\ UNCHANGED <<storeVars, palmHoldStart, fistHoldStart,
                             grabbedObject, lastPinchPosition,
                             lastGestureState, currentColorIndex,
                             currentColor, omVars, asyncVars>>
              /\ \A c \in Range(calls') :
                    c.op \in {"onHandResults", "showStatus",
                              "renderPreviewOverlay"}
              /\ HasCall(calls', "showStatus") <=> handDetected
      ]_vars

\* the hand is lost while a stroke of two points was being drawn and a palm
\* hold was running: the stroke and the timer are still there
C14_Witness ==
    /\ FrameOf(calls) = "null"
    /\ HasCall(calls, "showStatus")
    /\ ~isDrawing /\ ~handDetected
    /\ Len(currentStroke.points) >= 2
    /\ palmHoldStart # 0
    /\ lastGestureState = "palm"

\* C15: after every draw frame whose fingertip hits no object the store has
\* a current stroke: if no stroke was being drawn (isDrawing false) a new
\* stroke of the single fingertip point in the active colour, otherwise the
\* stroke it had, extended through addPoint.  Violated by the code: after a
\* rejected closure or a fist clear-all isDrawing is still true while the
\* store has no current stroke, and addPoint does nothing.
C15_DrawFrameLeavesCurrentStroke ==
    [][ (FrameOf(calls') = "draw" /\ HitOf(calls') = NoObject)
           => /\ currentStroke' # NoStroke
              /\ ~isDrawing
                    => \E c \in CallsOf(calls', "startStroke") :
                          /\ currentStroke'.points = <<c.pos>>
                          /\ currentStroke'.color = activeColor
                          /\ ~currentStroke'.closed
              /\ isDrawing
                    => \E c \in CallsOf(calls', "addPoint") :
                          currentStroke' = addPoint(currentStroke, c.pos)
      ]_vars

\* C16: a draw frame whose hit test returns an object calls pokeObject
\* exactly once, on that object, and starts or extends no stroke: the current
\* stroke with its points, the completed set and isDrawing are unchanged.
C16_DrawOnObjectPokesOnly ==
    [][ (FrameOf(calls') = "draw" /\ HitOf(calls') # NoObject)
           => /\ CountCalls(calls', "pokeObject") = 1
              /\ \A c \in CallsOf(calls', "pokeObject") :
                    c.obj = HitOf(calls')
              /\ ~HasCall(calls', "startStroke")
              /\ ~HasCall(calls', "addPoint")
              /\ UNCHANGED <<storeVars, isDrawing>>
      ]_vars

\* an object has just been poked while a stroke of two points was being drawn
C16_Witness ==
    /\ FrameOf(calls) = "draw"
    /\ HitOf(calls) # NoObject
    /\ HitOf(calls) \in objects
    /\ CountCalls(calls, "pokeObject") = 1
    /\ isDrawing
    /\ Len(currentStroke.points) = 2

\* C17: createFromStroke is called only with a stroke closeStroke has
\* returned (closed, its animation running), only on the step on which that
\* animation renders progress 1, and at most once per stroke; a stroke
\* closeStroke has returned is animating until createFromStroke is called
\* with it, so that every successful closure leads to exactly one call; a
\* closure that closeStroke rejects (no stroke, or an invalid one) starts no
\* animation and calls neither renderClosingAnimation nor createFromStroke.
C17_CreateOncePerClosure ==
    [][ /\ \A c \in CallsOf(calls', "createFromStroke") :
              /\ c.stroke \notin created /\ c.stroke \in created'
              /\ \E a \in anims :
                    a.stroke.id = c.stroke /\ a.stroke.closed
                       /\ Len(a.stroke.points) > 2
              /\ \A a \in anims' : a.stroke.id # c.stroke
              /\ \E r \in CallsOf(calls', "renderClosingAnimation") :
                    r.stroke = c.stroke /\ r.num = STROKE_CLOSE_PULSE_MS
        /\ CountCalls(calls', "createFromStroke") <= 1
        /\ created' # created => HasCall(calls', "createFromStroke")
        /\ \A c \in CallsOf(calls', "closeStroke") :
              IF c.stroke # 0
              THEN /\ c.stroke = currentStroke.id
                   /\ c.stroke \notin created
                   /\ \A a \in anims : a.stroke.id # c.stroke
                   /\ \E a \in anims' : a.stroke.id = c.stroke
              ELSE /\ anims' = anims
                   /\ created' = created
                   /\ ~HasCall(calls', "renderClosingAnimation")
                   /\ ~HasCall(calls', "createFromStroke")
        /\ \A a \in anims' :
              /\ a.stroke.id \notin created'
              /\ (\A b \in anims : b.stroke.id # a.stroke.id)
                    => \E c \in CallsOf(calls', "closeStroke") :
                          c.stroke = a.stroke.id
        /\ \A a \in anims :
              (\A b \in anims' : b.stroke.id # a.stroke.id)
                 => \E c \in CallsOf(calls', "createFromStroke") :
                       c.stroke = a.stroke.id
      ]_vars

\* createFromStroke has just been called with the second stroke, after the
\* first; both had been closed by a palm hold
C17_Witness ==
    /\ \E c \in CallsOf(calls, "createFromStroke") : c.stroke = 2
    /\ created = {1, 2}
    /\ anims = {}

\* C18: a stroke paused by a pinch frame or a null-landmark frame (the store
\* still has it, isDrawing is false) is extended by a following draw frame
\* over empty canvas: the current stroke is the same stroke, begins with all
\* the points it held before the pause, and the new point is appended
\* through addPoint.  Violated by the code: the draw frame takes the
\* "start new stroke" branch and startStroke replaces the paused stroke.
C18_PausedStrokeExtended ==
    [][ ( /\ FrameOf(calls') = "draw" /\ HitOf(calls') = NoObject
          /\ ~isDrawing /\ currentStroke # NoStroke )
           => /\ currentStroke' # NoStroke
              /\ currentStroke'.id = currentStroke.id
              /\ Len(currentStroke'.points) >= Len(currentStroke.points)
              /\ SubSeq(currentStroke'.points, 1, Len(currentStroke.points))
                    = currentStroke.points
              /\ ~HasCall(calls', "startStroke")
      ]_vars

\* C19: when animation frames keep being delivered and the createFromStroke
\* promise settles, every stroke that is in the completed set is eventually
\* out of it, whether createFromStroke succeeds or fails.  Violated by the
\* colour-index variant of createBalloon, whose only removeCompletedStroke
\* call comes after a successful await.
C19_CompletedEventuallyRemoved ==
    \A id \in 1 .. FairMaxStrokes :
       (id \in CompletedIds(completedStrokes))
          ~> (id \notin CompletedIds(completedStrokes))

\* C20: palmHoldStart is set (non-zero) only while the gesture of the last
\* dispatched tracked frame is palm, fistHoldStart only while it is fist, so
\* the two timers are never both set; and a hold completes (closeAndInflate,
\* clearAll) only on a frame of the gesture under which its timer was
\* started, with the previous tracked frame of that same gesture.
C20_TimersBelongToGesture ==
    /\ [](/\ palmHoldStart # 0 => lastGestureState = "palm"
          /\ fistHoldStart # 0 => lastGestureState = "fist"
          /\ ~(palmHoldStart # 0 /\ fistHoldStart # 0))
    /\ [][ /\ HasCall(calls', "closeAndInflate")
                => /\ FrameOf(calls') = "palm"
                   /\ lastGestureState = "palm"
                   /\ palmHoldStart # 0
                   /\ now - palmHoldStart >= PALM_HOLD_TIME
           /\ HasCall(calls', "clearAll")
                => /\ FrameOf(calls') = "fist"
                   /\ lastGestureState = "fist"
                   /\ fistHoldStart # 0
                   /\ now - fistHoldStart >= FIST_HOLD_TIME
         ]_vars

\* a fist frame ends with the fist timer running, after a palm hold has closed
\* a stroke: the palm timer is unset
C20_Witness ==
    /\ FrameOf(calls) = "fist"
    /\ lastGestureState = "fist"
    /\ fistHoldStart # 0
    /\ palmHoldStart = 0
    /\ completedStrokes # << >>

\* C21: a hold action fires only when the gesture persisted for the whole
\* hold: on the frame that calls closeAndInflate (clearAll) the previous
\* tracker frame had landmarks, and the run of palm (fist) frames not
\* interrupted by a null-landmark frame began no later than the timer.
\* Violated by the code: a null-landmark frame resets neither the timers nor
\* lastGestureState, so the elapsed time runs on across the gap.
C21_HoldNeedsUnbrokenGesture ==
    [][ /\ HasCall(calls', "closeAndInflate")
              => /\ handDetected
                 /\ holdSpanStart # 0
                 /\ holdSpanStart <= palmHoldStart
        /\ HasCall(calls', "clearAll")
              => /\ handDetected
                 /\ holdSpanStart # 0
                 /\ holdSpanStart <= fistHoldStart
      ]_vars

\* C22: the interpreter's drawing flag agrees with the store: whenever
\* isDrawing is true the store has a current stroke.  Violated by the code:
\* a rejected palm closure and a fist clear-all drop the current stroke and
\* leave isDrawing true.
C22_DrawingFlagAgreesWithStore ==
    isDrawing => currentStroke # NoStroke

\* C23: no manipulation call is issued for a removed object: every
\* moveGrabbedObject, rotateObject and releaseObject call names an object the
\* object manager still holds, and grabbedObject never refers to an object
\* that removeObject or the object manager's clearAll has removed.  Violated
\* by the code: handleSwipe and clearAll leave grabbedObject as it is.
C23_NoCallOnRemovedObject ==
    [][ /\ \A c \in Range(calls') :
              c.op \in {"moveGrabbedObject", "rotateObject", "releaseObject"}
                 => c.obj \in objects
        /\ grabbedObject' # NoObject => grabbedObject' \in objects'
      ]_vars

\* C24: a clear-all is final for everything drawn before it: createFromStroke
\* is called only with a stroke the store still holds in its completed set,
\* that is, a stroke no clearAll has wiped since closeStroke returned it.
\* Violated by the code: clearAll cancels no closing animation, and the
\* animation's last step calls createBalloon with the stroke it captured.
C24_ClearAllIsFinal ==
    [][ \A c \in CallsOf(calls', "createFromStroke") :
           c.stroke \in CompletedIds(completedStrokes)
      ]_vars

\* C25: a closed stroke pending solidification is independent of any newer
\* stroke: on every step each completed stroke that stays in the completed
\* set, and each stroke captured by a running closing animation, keeps its
\* points, colour and closed flag; a step that calls startStroke, addPoint or
\* closeStroke keeps every completed stroke in place (closeStroke only
\* appends); and removeCompletedStroke(A) removes exactly A, leaving the
\* current stroke and every other completed stroke unchanged (nothing
\* changes when A is not a member).
C25_ClosedStrokeIndependent ==
    [][ /\ \A i \in 1 .. Len(completedStrokes) :
              \A j \in 1 .. Len(completedStrokes') :
                 completedStrokes'[j].id = completedStrokes[i].id
                    => completedStrokes'[j] = completedStrokes[i]
        /\ \A a \in anims : \A b \in anims' :
              b.stroke.id = a.stroke.id => b.stroke = a.stroke
        /\ ( \/ HasCall(calls', "startStroke")
             \/ HasCall(calls', "addPoint")
             \/ HasCall(calls', "closeStroke") )
              => /\ Len(completedStrokes') >= Len(completedStrokes)
                 /\ SubSeq(completedStrokes', 1, Len(completedStrokes))
                       = completedStrokes
        /\ \A c \in CallsOf(calls', "removeCompletedStroke") :
              /\ completedStrokes' =
                    SelectSeq(completedStrokes, LAMBDA s : s.id # c.stroke)
              /\ currentStroke' = currentStroke
      ]_vars

\* removeCompletedStroke has just removed stroke 1 while the newer stroke 2,
\* closed in the meantime, stays in the completed set
C25_Witness ==
    /\ \E c \in CallsOf(calls, "removeCompletedStroke") : c.stroke = 1
    /\ CompletedIds(completedStrokes) = {2}

\* C26: after every palm frame and every none frame nothing is grabbed; when
\* an object was grabbed before the frame, releaseObject is called exactly
\* once on that frame, with that object, and otherwise not at all; a palm
\* frame releases whether or not its hold has elapsed.
C26_PalmAndNoneRelease ==
    [][ FrameOf(calls') \in {"palm", "none"}
           => /\ grabbedObject' = NoObject
              /\ grabbedObject # NoObject
                    => /\ CountCalls(calls', "releaseObject") = 1
                       /\ \A c \in CallsOf(calls', "releaseObject") :
                             c.obj = grabbedObject
                       /\ lastPinchPosition' = NoPoint
              /\ grabbedObject = NoObject
                    => ~HasCall(calls', "releaseObject")
      ]_vars

\* a palm frame has released the grabbed object before its hold elapsed
C26_Witness ==
    /\ FrameOf(calls) = "palm"
    /\ HasCall(calls, "releaseObject")
    /\ ~HasCall(calls, "closeAndInflate")
    /\ palmHoldStart = 0
    /\ grabbedObject = NoObject

\* C27: grabObject and releaseObject calls alternate, starting with
\* grabObject, each releaseObject naming the object of the grabObject before
\* it: grabObject is called only while nothing is grabbed and makes its
\* object the grabbed one, releaseObject only with the grabbed object and
\* leaves nothing grabbed, a step makes at most one of the two calls, and
\* grabbedObject changes on no other step.  While an object is grabbed a
\* pinch frame makes no hit test and no grab: it keeps the grabbed object and
\* only moves and rotates it.
C27_GrabReleaseAlternate ==
    [][ /\ CountCalls(calls', "grabObject")
              + CountCalls(calls', "releaseObject") <= 1
        /\ \A c \in CallsOf(calls', "grabObject") :
              /\ grabbedObject = NoObject
              /\ c.obj # NoObject /\ grabbedObject' = c.obj
        /\ \A c \in CallsOf(calls', "releaseObject") :
              /\ c.obj # NoObject /\ grabbedObject = c.obj
              /\ grabbedObject' = NoObject
        /\ grabbedObject' # grabbedObject
              => \/ HasCall(calls', "grabObject")
                 \/ HasCall(calls', "releaseObject")
        /\ (FrameOf(calls') = "pinch" /\ grabbedObject # NoObject)
              => /\ ~HasCall(calls', "getObjectAtPosition")
                 /\ ~HasCall(calls', "grabObject")
                 /\ grabbedObject' = grabbedObject
                 /\ \A c \in Range(calls') :
                       c.op \in {"moveGrabbedObject", "rotateObject"}
                          => c.obj = grabbedObject
      ]_vars

\* a pinch frame has just moved the grabbed object, which is still grabbed
C27_Witness ==
    /\ FrameOf(calls) = "pinch"
    /\ grabbedObject # NoObject
    /\ \E c \in CallsOf(calls, "moveGrabbedObject") : c.obj = grabbedObject
    /\ ~HasCall(calls, "getObjectAtPosition")

\* C28: in every reachable state of the store, every stroke of the completed
\* set is closed, has more than 2 points and a path length of at least
\* MIN_STROKE_LENGTH, and the current stroke, when there is one, is not
\* closed and has at least one point.
C28_StoreStrokesWellFormed ==
    /\ \A i \in 1 .. Len(completedStrokes) :
          /\ completedStrokes[i].closed
          /\ Len(completedStrokes[i].points) > 2
          /\ SumSegments(completedStrokes[i].points, 2) >= MIN_STROKE_LENGTH
    /\ currentStroke # NoStroke
          => /\ ~currentStroke.closed
             /\ Len(currentStroke.points) >= 1

\* the store holds a completed stroke and a newer current stroke of two points
C28_Witness ==
    /\ Len(completedStrokes) = 1
    /\ currentStroke # NoStroke
    /\ Len(currentStroke.points) = 2

\* C29: addPoint appends a point only when its distance from the last
\* accepted point reaches the minimum spacing, so any two consecutive stored
\* points of a stroke are at least MIN_POINT_DISTANCE apart; an addPoint call
\* either leaves the point sequence unchanged or appends one point to it.
\* Violated by the smoothed variant: it tests the raw point and pushes
\* smooth(point, lastPoint), which lies closer to the last point.
C29_StoredPointsSpaced ==
    /\ [](\A i \in 2 .. Len(sPoints) : farEnough(sPoints[i], sPoints[i - 1]))
    /\ [][ (sPoints # << >> /\ Len(sRaw') = Len(sRaw) + 1)
              => \/ sPoints' = sPoints
                 \/ /\ Len(sPoints') = Len(sPoints) + 1
                    /\ SubSeq(sPoints', 1, Len(sPoints)) = sPoints
         ]_vars

\* C30: startStroke called while a closed stroke is still pending in the
\* completed set fails silently: the store keeps the current stroke it had
\* (none is started) and its completed set.  Violated by the code:
\* startStroke assigns a new current stroke whatever the completed set holds.
C30_StartStrokeFailsWhilePending ==
    [][ (HasCall(calls', "startStroke") /\ completedStrokes # << >>)
           => /\ currentStroke' = currentStroke
              /\ completedStrokes' = completedStrokes
      ]_vars

\* C36: in the interpreter that keeps lastPinchPosition (remove-first
\* variant) lastPinchPosition is non-null exactly when grabbedObject is
\* non-null; a pinch frame that begins with nothing grabbed issues no
\* moveGrabbedObject and no rotateObject; a pinch frame that begins with an
\* object grabbed issues exactly one moveGrabbedObject, on that object and to
\* the frame's pinch centre, and exactly one rotateObject, on that object and
\* by the displacement of the pinch centre since the previous pinch frame.
C36_PinchPositionTracksGrab ==
    /\ [](variant = "removeFirst"
             => (lastPinchPosition # NoPoint <=> grabbedObject # NoObject))
    /\ [][ (variant = "removeFirst" /\ FrameOf(calls') = "pinch")
              => IF grabbedObject = NoObject
                 THEN /\ ~HasCall(calls', "moveGrabbedObject")
                      /\ ~HasCall(calls', "rotateObject")
                 ELSE /\ CountCalls(calls', "moveGrabbedObject") = 1
                      /\ CountCalls(calls', "rotateObject") = 1
                      /\ \A c \in CallsOf(calls', "moveGrabbedObject") :
                            c.obj = grabbedObject
                               /\ c.pos = lastPinchPosition'
                      /\ \A c \in CallsOf(calls', "rotateObject") :
                            /\ c.obj = grabbedObject
                            /\ c.pos =
                                  [x |-> lastPinchPosition'.x
                                            - lastPinchPosition.x,
                                   y |-> lastPinchPosition'.y
                                            - lastPinchPosition.y]
         ]_vars

\* a pinch frame has moved the grabbed object and rotated it by a non-zero
\* displacement
C36_Witness ==
    /\ variant = "removeFirst"
    /\ FrameOf(calls) = "pinch"
    /\ grabbedObject # NoObject
    /\ \E c \in CallsOf(calls, "rotateObject") :
          c.obj = grabbedObject /\ c.pos # [x |-> 0, y |-> 0]
    /\ \E c \in CallsOf(calls, "moveGrabbedObject") :
          c.pos = lastPinchPosition

\* C33: rendering has no effect on the data model: a step of render() or of
\* renderClosingAnimation(stroke, progress) changes neither the current
\* stroke's point sequence nor any completed stroke nor the completed set;
\* the live position drawn as a trailing segment is not appended to the
\* stroke.
C33_RenderingLeavesModel ==
    [][ (sDrawn'.op \in {"render", "renderClosingAnimation"})
           => /\ sPoints' = sPoints
              /\ sCompleted' = sCompleted
              /\ sRaw' = sRaw /\ smoothedPosition' = smoothedPosition
      ]_vars

\* render() has drawn the current stroke with a trailing segment to the live
\* position, which is not a point of the stroke
C33_Witness ==
    /\ sDrawn.op = "render"
    /\ sPoints # << >>
    /\ smoothedPosition # NoPoint
    /\ sDrawn.paths = <<Append(sPoints, smoothedPosition)>>
    /\ smoothedPosition # sPoints[Len(sPoints)]

\* C34: under any interleaving of start() and stop() with their pending
\* awaits, at most one frame-processing loop feeds frames to the tracker at
\* any time.  Violated by the code: start() tests isRunning before its awaits
\* and sets it after them, so two overlapping calls each begin a loop; and
\* the raf loop does not test isRunning again after awaiting hands.send, so a
\* loop stopped during the send goes on beside the loop of the next start().
C34_AtMostOneLoop ==
    Cardinality({l \in loops : l.pc \in {"scheduled", "send", "camera"}}) <= 1

\* C35: every Results handed to onResults while a callback is registered
\* invokes that callback exactly once: with null exactly when no hand was
\* detected, otherwise with the landmarks of the first detected hand, each x
\* mirrored as (1 - x) * canvasWidth and each y scaled as y * canvasHeight;
\* with no callback registered nothing is invoked; and the callback is
\* invoked on no other step.
C35_OneCallbackPerResult ==
    [][ IF ~delivered'.given THEN trackerCalls' = << >>
        ELSE IF callback = NoCallback THEN trackerCalls' = << >>
        ELSE /\ Len(trackerCalls') = 1
             /\ trackerCalls'[1].cb = callback
             /\ (trackerCalls'[1].landmarks = NoLandmarks)
                   <=> (Len(delivered'.results) = 0)
             /\ Len(delivered'.results) > 0 =>
                   LET first == delivered'.results[1]
                       out == trackerCalls'[1].landmarks
                   IN  /\ Len(out) = Len(first)
                       /\ \A k \in 1 .. Len(first) :
                             /\ out[k].x * NormDen
                                   = (NormDen - first[k].x) * canvasWidth
                             /\ out[k].y * NormDen
                                   = first[k].y * canvasHeight
      ]_vars

\* two hands were detected after the canvas was resized; the callback of the
\* latest start() received the first one, mirrored
C35_Witness ==
    /\ delivered.given
    /\ Len(delivered.results) = MaxHands
    /\ delivered.results[1] # delivered.results[2]
    /\ canvasWidth = 800
    /\ callback = MaxStarts
    /\ Len(trackerCalls) = 1
    /\ trackerCalls[1].cb = callback
    /\ delivered.results[1][1].x = 1
    /\ trackerCalls[1].landmarks[1].x * NormDen = (NormDen - 1) * 800
    /\ trackerCalls[1].landmarks[1].y = 0

\* C31: every run of the render loop makes its four calls exactly once and in
\* this order: objectManager.update, scene3D.render, drawingCanvas.render,
\* handVisualizer.render; every run requests the next animation frame, so
\* once init has started the loop a frame is always pending, during a
\* closing animation too.
C31_RenderLoopOrderAndReschedule ==
    [][ /\ (lastFrameTime' # lastFrameTime)
              => /\ renderCalls' = <<"objectManager.update", "scene3D.render",
                                     "drawingCanvas.render",
                                     "handVisualizer.render">>
                 /\ frameRequested'
        /\ frameRequested => frameRequested'
        /\ (initPc' = "running") => frameRequested'
        /\ (anims' # {} /\ initPc' = "running") => frameRequested'
      ]_vars

\* the loop has run a frame while a closing animation that began earlier is
\* still waiting for its own animation frame, and has requested the next one
C31_Witness ==
    /\ initPc = "running"
    /\ \E a \in anims : a.startTime < now /\ a.progress > 0
    /\ lastFrameTime = now
    /\ renderCalls = <<"objectManager.update", "scene3D.render",
                       "drawingCanvas.render", "handVisualizer.render">>
    /\ frameRequested

\* C32: if handTracker.start throws, init's catch block runs: isActive() is
\* false then and stays false, the render loop is never started, no tracker
\* result is ever dispatched to onHandResults, and the status message is
\* shown with no hide timeout and is never hidden or replaced; init reaches
\* its catch block only when start has thrown.
C32_StartFailureIsFatal ==
    [][ /\ (initPc' = "failed")
              => /\ startPc'[1] = "failed"
                 /\ ~isRunning'
                 /\ ~frameRequested'
                 /\ renderCalls' = << >> /\ lastFrameTime' = 0
                 /\ initCalls' = <<showStatus(InitFailureText, 0)>>
                 /\ ~HasCall(calls', "onHandResults")
                 /\ ~HasCall(calls', "showStatus")
                 /\ ~HasCall(calls', "hideStatus")
                 /\ lastGestureState' = NoGesture
        /\ (initPc = "failed") => initPc' = "failed"
        /\ (startPc'[1] = "failed") => initPc' \in {"start", "failed"}
      ]_vars

\* start threw when the Camera failed to start, init has shown the message,
\* and time has passed since
C32_Witness ==
    /\ initPc = "failed"
    /\ trackerVariant = "camera"
    /\ camera # NoCamera
    /\ ~isRunning
    /\ initCalls = <<showStatus(InitFailureText, 0)>>
    /\ now > TickMs

=============================================================================
